---- MODULE Spec2Model ----
(***************************************************************************)
(* Model of the workflowyCLI tree mirror: TreeSyncService (state/sync.ts)  *)
(* and NodeService (state/NodeService.ts).                                 *)
(*                                                                         *)
(* A tree is a function from parent ids (the root is "None") to the list   *)
(* of child ids; an id that occurs in a list but not in the domain is a    *)
(* node whose `ch` is undefined.  The function with the empty domain is    *)
(* JavaScript's null mirror.                                               *)
(*                                                                         *)
(* One step of the model is one run-to-completion turn of the event loop:  *)
(* a caller's invocation up to its first await, the arrival of one remote  *)
(* answer together with the promise reactions it releases, or the firing   *)
(* of one timer.  The variable `returned` holds the invocations that got   *)
(* their result in the step just taken, so that a predicate over it reads  *)
(* the engine's state at the moment of the return.                         *)
(***************************************************************************)
EXTENDS Integers, Sequences, FiniteSets, TLC

VARIABLES
    now,             \* Date.now()
    inMemoryTree,    \* TreeSyncService.inMemoryTree: the mirror
    lastSyncedAt,    \* TreeSyncService.lastSyncedAt
    disk,            \* the persisted record, cache.get('tree')
    syncInProgress,  \* TreeSyncService.syncInProgress: 0 (null) or the background run it holds
    syncs,           \* the runs of syncBlocking that are not yet garbage, by number
    calls,           \* the invocations suspended at an await, by number
    returned,        \* the invocations that returned to their callers in the last step
    issued,          \* the number of invocations made so far
    nodeCache,       \* NodeService.nodeCache
    remote,          \* the outline held by the remote store: parent id -> list of child ids
    names,           \* the name of each node, a sequence of characters
    currentNodeId,   \* SessionState._currentNodeId
    currentPath      \* SessionState._currentPath: the breadcrumbs, as node ids

vars == <<now, inMemoryTree, lastSyncedAt, disk, syncInProgress, syncs, calls, returned, issued, nodeCache,
          remote, names, currentNodeId, currentPath>>

\* The remote store's data, which only mutations change.
storeVars == <<remote, names>>

\* The session's location, which only navigation changes.
sessionVars == <<currentNodeId, currentPath>>

----------------------------------------------------------------------------
(* Program constants *)

CACHE_TTL_MS == 5 * 60 * 1000

SYNC_TIMEOUT_MS == 60000

ROOT == "None"

----------------------------------------------------------------------------
(* Bounds of the model *)

MaxCalls == 2

MaxTicks == 1

\* The longest breadcrumb stack setNode is applied to.
MaxDepth == 3

StartTime == 2 * CACHE_TTL_MS

MaxTime == StartTime + MaxTicks * SYNC_TIMEOUT_MS

----------------------------------------------------------------------------
(* Trees *)

Null == [x \in {} |-> <<>>]

EmptyTree == (ROOT :> <<>>)

Ids == {"a", "b", "c"}

\* The remote outline: root -> b, a (returned out of order); a -> c.
RemoteTree == (ROOT :> <<"b", "a">>) @@ ("a" :> <<"c">>) @@ ("b" :> <<>>) @@ ("c" :> <<>>)

\* The snapshot persisted by an earlier run: the outline before b and c were added.
OldTree == (ROOT :> <<"a">>) @@ ("a" :> <<>>)

\* The order key k of each node.
K(id) == CASE id = "a" -> 0 [] id = "b" -> 1 [] OTHER -> 0

Range(s) == {s[i] : i \in DOMAIN s}

RECURSIVE ReachFrom(_, _, _)
ReachFrom(t, frontier, seen) ==
    IF frontier = {} THEN seen
    ELSE LET kids == UNION {IF p \in DOMAIN t THEN Range(t[p]) ELSE {} : p \in frontier}
         IN ReachFrom(t, kids \ (seen \cup frontier), seen \cup frontier)

\* The ids of the nodes of subtree `from` of t (from included).
Reach(t, from) == ReachFrom(t, {from}, {})

\* Drop the children lists of nodes that are no longer part of the tree.
Prune(t) == [p \in (DOMAIN t \cap Reach(t, ROOT)) |-> t[p]]


\* A lookup that searches the top level only.
FindNodeByIdTopLevel(t, id) == ROOT \in DOMAIN t /\ id \in Range(t[ROOT])

\* findRecursive / findInTree: is there a node with this id in the tree?
FindNodeById(t, id) == id \in (Reach(t, ROOT) \ {ROOT})

RECURSIVE InsertByK(_, _)
InsertByK(sorted, x) ==
    IF sorted = <<>> THEN <<x>>
    ELSE IF K(x) < K(Head(sorted)) THEN <<x>> \o sorted
    ELSE <<Head(sorted)>> \o InsertByK(Tail(sorted), x)

RECURSIVE SortByK(_)
\* children.sort((a, b) => (a.k || 0) - (b.k || 0)), a stable sort
SortByK(s) == IF s = <<>> THEN <<>> ELSE InsertByK(SortByK(SubSeq(s, 1, Len(s) - 1)), s[Len(s)])

\* The path context the session hands to syncSubtree for a node: its breadcrumbs from the root.
PathTo(id) == CASE id = "a" -> <<ROOT, "a">> [] id = "b" -> <<ROOT, "b">> [] id = "c" -> <<ROOT, "a", "c">> [] OTHER -> <<ROOT>>

----------------------------------------------------------------------------
(* Strings, as sequences of one-character strings *)

IsDigit(ch) == ch \in {"0", "1", "2", "3", "4", "5", "6", "7", "8", "9"}

DigitValue(ch) ==
    CASE ch = "0" -> 0 [] ch = "1" -> 1 [] ch = "2" -> 2 [] ch = "3" -> 3 [] ch = "4" -> 4
      [] ch = "5" -> 5 [] ch = "6" -> 6 [] ch = "7" -> 7 [] ch = "8" -> 8 [] OTHER -> 9

\* isNaN(index)
NaN == -1

RECURSIVE ParseDigits(_, _, _)
ParseDigits(str, i, acc) ==
    IF i > Len(str) \/ ~IsDigit(str[i]) THEN acc
    ELSE ParseDigits(str, i + 1, 10 * acc + DigitValue(str[i]))

\* An integer parse that accepts a segment only when all of it is digits.
ParseIntStrict(str) ==
    IF str = <<>> \/ \E i \in DOMAIN str : ~IsDigit(str[i]) THEN NaN ELSE ParseDigits(str, 1, 0)

\* parseInt(arg, 10): the value of the leading digits, whatever follows them
ParseInt(str) == IF str = <<>> \/ ~IsDigit(str[1]) THEN NaN ELSE ParseDigits(str, 1, 0)

Lower(ch) == CASE ch = "P" -> "p" [] ch = "B" -> "b" [] ch = "X" -> "x" [] ch = "D" -> "d" [] OTHER -> ch

ToLowerCase(str) == [i \in DOMAIN str |-> Lower(str[i])]

StartsWith(str, prefix) == Len(prefix) <= Len(str) /\ SubSeq(str, 1, Len(prefix)) = prefix

RECURSIVE SplitFrom(_, _, _)
\* pathStr.split('/')
SplitFrom(str, i, cur) ==
    IF i > Len(str) THEN <<cur>>
    ELSE IF str[i] = "/" THEN <<cur>> \o SplitFrom(str, i + 1, <<>>)
    ELSE SplitFrom(str, i + 1, Append(cur, str[i]))

\* pathStr.split('/').filter(s => s && s !== '.')
Segments(str) == SelectSeq(SplitFrom(str, 1, <<>>), LAMBDA g : g # <<>> /\ g # <<".">>)

DotDot == <<".", ".">>

----------------------------------------------------------------------------
(* The persisted record and hydration *)

NoRecord == [has |-> FALSE, syncedAt |-> 0, root |-> Null]

Record(at, tree) == [has |-> TRUE, syncedAt |-> at, root |-> tree]

\* Records that are not what a sync persists: a file that does not parse (the store reads as
\* empty), a root that is not a list, a record without a numeric syncedAt.
NotAList == ("?" :> <<>>)

Unparseable == [has |-> FALSE, syncedAt |-> 0, root |-> NotAList]

RootNotAList == [has |-> TRUE, syncedAt |-> 0, root |-> NotAList]

NoSyncedAt == [has |-> TRUE, syncedAt |-> NaN, root |-> OldTree]

\* cached && Array.isArray(cached.root)
Loadable(record) == record.has /\ record.root # NotAList

\* tryLoadCache: the mirror after an attempt to hydrate it from the persisted record
LoadedTree == IF inMemoryTree # Null THEN inMemoryTree ELSE IF Loadable(disk) THEN disk.root ELSE Null

LoadedSyncedAt == IF inMemoryTree # Null THEN lastSyncedAt ELSE IF Loadable(disk) THEN disk.syncedAt ELSE lastSyncedAt

\* A staleness test that counts an age of exactly the TTL as stale.
IsStaleAtInclusive(syncedAt) == now - syncedAt >= CACHE_TTL_MS

\* Date.now() - this.lastSyncedAt > CACHE_TTL_MS; the difference is NaN, and the comparison
\* false, when lastSyncedAt is not a number.
IsStaleAt(syncedAt) == syncedAt # NaN /\ now - syncedAt > CACHE_TTL_MS

----------------------------------------------------------------------------
(* Tasks *)

\* One run of syncBlocking past its join test: the fetch of the whole tree raced against the
\* 60 second timer.  got and pending are the state of fetchFullTree('None').
NewSync(kind) ==
    [kind |-> kind, start |-> now, pending |-> {ROOT}, got |-> Null,
     race |-> "pending", timer |-> "armed"]

\* One invocation of a public operation, with what held when it was made.
NewCall(op, node, force, ctx) ==
    [op |-> op, node |-> node, force |-> force, ctx |-> ctx,
     pc |-> "done", awaits |-> 0, joined |-> FALSE, since |-> now,
     outcome |-> "pending", err |-> "none", cause |-> "none",
     tree |-> Null, list |-> <<>>, stale |-> FALSE, syncingInBackground |-> FALSE,
     pending |-> {}, got |-> Null,
     resident |-> inMemoryTree # Null, hadMirror |-> LoadedTree # Null,
     preSyncedAt |-> LoadedSyncedAt,
     waited |-> FALSE, triggered |-> FALSE,
     parentId |-> "", priority |-> 0,
     arg |-> <<>>, phase |-> "", seg |-> 1, lookupId |-> "", pathStack |-> <<>>,
     currentNode |-> "", retried |-> FALSE,
     startId |-> currentNodeId, startPath |-> currentPath,
     query |-> <<>>, options |-> [includeNotes |-> FALSE, limit |-> 0, isRegex |-> FALSE],
     results |-> <<>>, examined |-> <<>>, mirror |-> Null,
     stage |-> "", hint |-> <<>>, jumpId |-> ""]

\* getNodes(p) as the store answers it: the children of p, none when p does not exist.
RemoteChildren(p) == IF p \in DOMAIN remote THEN remote[p] ELSE <<>>

\* A fetch that lists the children of a node in the order in which their own fetches completed.
GotAfterByArrival(got, p) ==
    LET g == got @@ (p :> RemoteChildren(p))
    IN [x \in DOMAIN g |->
           IF x # p /\ p \in Range(g[x])
           THEN <<p>> \o SelectSeq(g[x], LAMBDA y : y # p)
           ELSE g[x]]

\* client.getNodes(p) answered: the fetch records p's children and asks for each child's children.
GotAfter(got, p) == got @@ (p :> RemoteChildren(p))

PendingAfter(pending, p) == (pending \ {p}) \cup Range(RemoteChildren(p))

\* A run whose race is settled, whose timer has fired and whose requests are all answered
\* holds nothing any more.
Finished(t) == t.race # "pending" /\ t.timer = "fired" /\ t.pending = {}

Collect(ss) == [s \in {x \in DOMAIN ss : ~Finished(ss[x])} |-> ss[s]]

----------------------------------------------------------------------------
(* TreeSyncService: search *)

Name(id) == IF id \in DOMAIN names THEN names[id] ELSE <<"?">>

\* The notes of the nodes of the outline; a has none.
Notes == ("b" :> <<"p", "r", "o">>) @@ ("c" :> <<"o", "x">>)

\* node.note || ''
Note(id) == IF id \in DOMAIN Notes THEN Notes[id] ELSE <<>>

\* String.prototype.includes
Includes(str, sub) == \E i \in 0..(Len(str) - Len(sub)) : SubSeq(str, i + 1, i + Len(sub)) = sub

\* new RegExp(query, 'i') throws on a pattern with an unclosed group.
ValidPattern(query) == "(" \notin Range(query)

RECURSIVE Atoms(_, _)
\* The atoms of a pattern: a backslash with the character after it is an escape, every other
\* character a literal.
Atoms(pattern, i) ==
    IF i > Len(pattern) THEN <<>>
    ELSE IF pattern[i] = "\\" /\ i < Len(pattern)
    THEN <<[escape |-> TRUE, ch |-> pattern[i + 1]]>> \o Atoms(pattern, i + 2)
    ELSE <<[escape |-> FALSE, ch |-> pattern[i]]>> \o Atoms(pattern, i + 1)

\* One atom against one character under the 'i' flag: \d is a digit, \D anything else, any
\* other escape the character itself, and a literal matches ignoring case.
AtomMatches(atom, ch) ==
    IF atom.escape /\ atom.ch = "d" THEN IsDigit(ch)
    ELSE IF atom.escape /\ atom.ch = "D" THEN ~IsDigit(ch)
    ELSE Lower(atom.ch) = Lower(ch)

\* regex.test(text) for new RegExp(pattern, 'i'): a match of the atoms anywhere in the text.
RegexTest(pattern, text) ==
    LET atoms == Atoms(pattern, 1)
    IN \E i \in 0..(Len(text) - Len(atoms)) : \A k \in DOMAIN atoms : AtomMatches(atoms[k], text[i + k])

\* findRecursive: the breadcrumbs of the ancestors of the target, outermost first, or NotInTree.
NotInTree == <<"?">>

RECURSIVE FindRecursive(_, _, _, _, _)
FindRecursive(t, nodes, i, targetId, path) ==
    IF i > Len(nodes) THEN NotInTree
    ELSE IF nodes[i] = targetId THEN path
    ELSE LET found == IF nodes[i] \in DOMAIN t
                      THEN FindRecursive(t, t[nodes[i]], 1, targetId, Append(path, nodes[i]))
                      ELSE NotInTree
         IN IF found # NotInTree THEN found ELSE FindRecursive(t, nodes, i + 1, targetId, path)

\* A limit test that never stops the traversal.
LimitReachedNever(results, options) == FALSE

\* options.limit && results.length >= options.limit
LimitReached(results, options) == options.limit # 0 /\ Len(results) >= options.limit

\* A match test that reports the note whenever the note matches.
MatchOfNoteFirst(id, query, options) ==
    LET nameMatch == Includes(ToLowerCase(Name(id)), query)
        noteMatch == options.includeNotes /\ Includes(ToLowerCase(Note(id)), query)
    IN [hit |-> nameMatch \/ noteMatch, matchField |-> IF noteMatch THEN "note" ELSE "name"]

\* nameMatch / noteMatch of one node, and the matchField of its result
MatchOf(id, query, options) ==
    LET nameMatch == IF options.isRegex THEN RegexTest(query, Name(id))
                     ELSE Includes(ToLowerCase(Name(id)), query)
        noteMatch == options.includeNotes /\
                     IF options.isRegex THEN RegexTest(query, Note(id))
                     ELSE Includes(ToLowerCase(Note(id)), query)
    IN [hit |-> nameMatch \/ noteMatch, matchField |-> IF nameMatch THEN "name" ELSE "note"]

\* searchRecursive over nodes[i..]: acc holds the results pushed so far and the nodes examined
\* so far, in order.
RECURSIVE SearchRecursive(_, _, _, _, _, _, _)
SearchRecursive(t, nodes, i, query, path, acc, options) ==
    IF i > Len(nodes) THEN acc
    ELSE LET node == nodes[i]
             m == MatchOf(node, query, options)
             acc1 == [results |-> IF m.hit
                                  THEN Append(acc.results, [node |-> node, path |-> path,
                                                            matchField |-> m.matchField])
                                  ELSE acc.results,
                      examined |-> Append(acc.examined, node)]
         IN IF m.hit /\ LimitReached(acc1.results, options) THEN acc1
            ELSE IF node \in DOMAIN t /\ t[node] # <<>>
            THEN LET acc2 == SearchRecursive(t, t[node], 1, query, Append(path, node), acc1, options)
                 IN IF LimitReached(acc2.results, options) THEN acc2
                    ELSE SearchRecursive(t, nodes, i + 1, query, path, acc2, options)
            ELSE SearchRecursive(t, nodes, i + 1, query, path, acc1, options)

NoResults == [results |-> <<>>, examined |-> <<>>]

\* TreeSyncService.search on mirror t: the outcome, the results and the nodes examined.
SearchTree(t, query, options, startNodeId) ==
    LET initialPath == IF startNodeId = ROOT THEN <<>>
                       ELSE FindRecursive(t, t[ROOT], 1, startNodeId, <<>>)
        startNodes == IF startNodeId = ROOT THEN t[ROOT] ELSE <<startNodeId>>
    IN IF t = Null THEN [outcome |-> "results", err |-> "none"] @@ NoResults
       ELSE IF initialPath = NotInTree THEN [outcome |-> "results", err |-> "none"] @@ NoResults
       ELSE IF options.isRegex /\ ~ValidPattern(query)
       THEN [outcome |-> "error", err |-> "invalidQuery"] @@ NoResults
       ELSE [outcome |-> "results", err |-> "none"] @@
            SearchRecursive(t, startNodes, 1, ToLowerCase(query), initialPath, NoResults, options)

\* NodeService.search after its getTree: a getTree that threw is rethrown, otherwise the
\* mirror that is resident then is searched.
SearchAnswer(r, t) ==
    IF r.op # "search" \/ r.outcome # "tree" THEN r
    ELSE LET a == SearchTree(t, r.query, r.options, r.node)
         IN [r EXCEPT !.outcome = a.outcome, !.err = a.err, !.results = a.results,
                      !.examined = a.examined, !.mirror = t]

----------------------------------------------------------------------------
(* syncBlocking *)

\* A catch block that rethrows a timeout although a mirror is resident.
SyncResultTimeoutThrows(kind, cause, tree) ==
    IF cause = "ok" THEN [outcome |-> "tree", err |-> "none", tree |-> tree]
    ELSE IF inMemoryTree # Null /\ cause # "timeout" THEN [outcome |-> "tree", err |-> "none", tree |-> inMemoryTree]
    ELSE IF kind = "bg" /\ cause # "timeout" THEN [outcome |-> "tree", err |-> "none", tree |-> EmptyTree]
    ELSE [outcome |-> "error", err |-> cause, tree |-> Null]

\* A background run whose rejection is not caught.
SyncResultBgRethrows(kind, cause, tree) ==
    IF cause = "ok" THEN [outcome |-> "tree", err |-> "none", tree |-> tree]
    ELSE IF kind = "bg" THEN [outcome |-> "error", err |-> cause, tree |-> Null]
    ELSE IF inMemoryTree # Null THEN [outcome |-> "tree", err |-> "none", tree |-> inMemoryTree]
    ELSE [outcome |-> "error", err |-> cause, tree |-> Null]

\* What the promise of a settled syncBlocking hands to those awaiting it.  cause is "ok" (the
\* fetch won the race, tree is its result), "remote" (getNodes rejected) or "timeout".
\* A background run is wrapped in .catch(e => this.inMemoryTree || []).
SyncResult(kind, cause, tree) ==
    IF cause = "ok" THEN [outcome |-> "tree", err |-> "none", tree |-> tree]
    ELSE IF inMemoryTree # Null THEN [outcome |-> "tree", err |-> "none", tree |-> inMemoryTree]
    ELSE IF kind = "bg" THEN [outcome |-> "tree", err |-> "none", tree |-> EmptyTree]
    ELSE [outcome |-> "error", err |-> cause, tree |-> Null]

Awaiting(s) == {i \in DOMAIN calls : calls[i].pc = "awaitSync" /\ calls[i].awaits = s}

\* The callers suspended on sync s resume with its result.
Resumed(s, cause, tree) ==
    LET r == SyncResult(syncs[s].kind, cause, tree)
    IN {SearchAnswer([calls[i] EXCEPT !.pc = "done", !.outcome = r.outcome, !.err = r.err,
                                      !.cause = cause, !.tree = r.tree],
                     IF cause = "ok" THEN tree ELSE inMemoryTree) :
           i \in {j \in Awaiting(s) : calls[j].op # "jumpToNodeId"}}

\* The callers that stay suspended; a jumpToNodeId whose forceSync settled goes on after it.
StillSuspended(s) ==
    [i \in {j \in DOMAIN calls : j \notin Awaiting(s) \/ calls[j].op = "jumpToNodeId"} |->
        IF i \in Awaiting(s) THEN [calls[i] EXCEPT !.pc = "afterSync"] ELSE calls[i]]

\* A background run without its finally handler: the marker stays.
ClearedMarkerNever(s) == syncInProgress

\* .finally(() => { this.syncInProgress = null })
ClearedMarker(s) == IF syncInProgress = s THEN 0 ELSE syncInProgress

\* An entry that never joins: every invocation starts a run of its own.
EnterSyncBlockingAlone(i, r) ==
    /\ syncs' = (i :> NewSync("fg")) @@ syncs
    /\ calls' = (i :> [r EXCEPT !.pc = "awaitSync", !.awaits = i,
                                !.since = now, !.waited = TRUE]) @@ calls

\* Entry of syncBlocking for invocation i with record r: join the background run that is in
\* flight, or start a run of its own.
EnterSyncBlocking(i, r) ==
    IF syncInProgress # 0
    THEN /\ syncs' = syncs
         /\ calls' = (i :> [r EXCEPT !.pc = "awaitSync", !.awaits = syncInProgress,
                                     !.joined = TRUE, !.since = now, !.waited = TRUE]) @@ calls
    ELSE /\ syncs' = (i :> NewSync("fg")) @@ syncs
         /\ calls' = (i :> [r EXCEPT !.pc = "awaitSync", !.awaits = i,
                                     !.since = now, !.waited = TRUE]) @@ calls

\* A fetch whose completion is taken although its race was lost to the timer.
WinsLate(t, pending2) == t.race \in {"pending", "timeout"} /\ pending2 = {}

\* A fetch that hands its tree over as soon as the first answer is in.
WinsEarly(t, pending2) == t.race = "pending"

\* The fetch of run t settles the race in its favour when its last request is answered.
Wins(t, pending2) == t.race = "pending" /\ pending2 = {}

\* A stamp taken from startTime instead of the completion time.
CompletionTimeAtStart(t) == t.start

\* const now = Date.now() in the try block
CompletionTime(t) == now

\* The remote store answers request p of full fetch s.  When it was the last answer of a fetch
\* that is still racing, the try block of syncBlocking runs: persist, swap the mirror in, stamp.
\* The answers to a fetch that lost the race are taken and dropped.
FetchRespond(s, p) ==
    /\ UNCHANGED <<storeVars, sessionVars>>
    /\ s \in DOMAIN syncs
    /\ p \in syncs[s].pending
    /\ LET t == syncs[s]
           got2 == GotAfter(t.got, p)
           pending2 == PendingAfter(t.pending, p)
       IN IF Wins(t, pending2)
          THEN /\ syncs' = Collect([syncs EXCEPT ![s] = [t EXCEPT !.pending = {}, !.got = Null, !.race = "ok"]])
               /\ disk' = Record(CompletionTime(t), got2)
               /\ inMemoryTree' = got2
               /\ lastSyncedAt' = CompletionTime(t)
               /\ syncInProgress' = ClearedMarker(s)
               /\ calls' = StillSuspended(s)
               /\ returned' = Resumed(s, "ok", got2)
          ELSE IF t.race = "pending"
          THEN /\ syncs' = [syncs EXCEPT ![s] = [t EXCEPT !.pending = pending2, !.got = got2]]
               /\ returned' = {}
               /\ UNCHANGED <<disk, inMemoryTree, lastSyncedAt, syncInProgress, calls>>
          ELSE /\ syncs' = Collect([syncs EXCEPT ![s] = [t EXCEPT !.pending = pending2]])
               /\ returned' = {}
               /\ UNCHANGED <<disk, inMemoryTree, lastSyncedAt, syncInProgress, calls>>
    /\ UNCHANGED <<now, issued, nodeCache>>

\* The remote store rejects request p of the racing full fetch s (network or auth error): the
\* catch block of syncBlocking runs.  Nothing awaits the fetch's other requests any more.
FetchFail(s, p) ==
    /\ UNCHANGED <<storeVars, sessionVars>>
    /\ s \in DOMAIN syncs
    /\ p \in syncs[s].pending
    /\ syncs[s].race = "pending"
    /\ syncs' = Collect([syncs EXCEPT ![s] = [@ EXCEPT !.pending = {}, !.got = Null, !.race = "error"]])
    /\ syncInProgress' = ClearedMarker(s)
    /\ calls' = StillSuspended(s)
    /\ returned' = Resumed(s, "remote", Null)
    /\ UNCHANGED <<now, disk, inMemoryTree, lastSyncedAt, issued, nodeCache>>

Deadline(s) == syncs[s].start + SYNC_TIMEOUT_MS

\* The 60 second timer of sync s fires while its fetch is still running: the catch block runs,
\* the fetch goes on.
SyncTimeout(s) ==
    /\ UNCHANGED <<storeVars, sessionVars>>
    /\ s \in DOMAIN syncs
    /\ syncs[s].timer = "armed"
    /\ now >= Deadline(s)
    /\ syncs[s].race = "pending"
    /\ syncs' = [syncs EXCEPT ![s] = [@ EXCEPT !.timer = "fired", !.got = Null, !.race = "timeout"]]
    /\ syncInProgress' = ClearedMarker(s)
    /\ calls' = StillSuspended(s)
    /\ returned' = Resumed(s, "timeout", Null)
    /\ UNCHANGED <<now, disk, inMemoryTree, lastSyncedAt, issued, nodeCache>>

\* The timer of a sync whose race is already settled fires: the rejection goes nowhere.
TimerExpire(s) ==
    /\ UNCHANGED <<storeVars, sessionVars>>
    /\ s \in DOMAIN syncs
    /\ syncs[s].timer = "armed"
    /\ now >= Deadline(s)
    /\ syncs[s].race # "pending"
    /\ syncs' = Collect([syncs EXCEPT ![s] = [@ EXCEPT !.timer = "fired"]])
    /\ returned' = {}
    /\ UNCHANGED <<now, disk, inMemoryTree, lastSyncedAt, syncInProgress, calls, issued, nodeCache>>

\* Time passes.  A timer that is due fires before the clock moves on.
Tick ==
    /\ UNCHANGED <<storeVars, sessionVars>>
    /\ now + SYNC_TIMEOUT_MS <= MaxTime
    /\ \A s \in DOMAIN syncs : syncs[s].timer = "armed" => Deadline(s) >= now + SYNC_TIMEOUT_MS
    /\ now' = now + SYNC_TIMEOUT_MS
    /\ returned' = {}
    /\ UNCHANGED <<inMemoryTree, lastSyncedAt, disk, syncInProgress, syncs, calls, issued, nodeCache>>

----------------------------------------------------------------------------
(* TreeSyncService: getTree, forceSync *)

\* getTree answers from the mirror: resident, or loadable from the persisted record.
CacheHit(force) == ~force /\ LoadedTree # Null

\* A stale read that starts nothing.
TriggersBackgroundNever(syncedAt) == FALSE

\* if (isStale && !this.syncInProgress) this.syncInBackground()
TriggersBackground(syncedAt) == IsStaleAt(syncedAt) /\ syncInProgress = 0

GetTree(force) ==
    /\ UNCHANGED <<storeVars, sessionVars>>
    /\ issued < MaxCalls
    /\ issued' = issued + 1
    /\ LET i == issued + 1
           c == NewCall("getTree", ROOT, force, <<>>)
       IN IF CacheHit(force)
          THEN LET trigger == TriggersBackground(LoadedSyncedAt)
                   marker == IF trigger THEN i ELSE syncInProgress
               IN /\ inMemoryTree' = LoadedTree
                  /\ lastSyncedAt' = LoadedSyncedAt
                  /\ syncs' = IF trigger THEN (i :> NewSync("bg")) @@ syncs ELSE syncs
                  /\ syncInProgress' = marker
                  /\ returned' = {[c EXCEPT !.outcome = "tree", !.tree = LoadedTree,
                                            !.stale = IsStaleAt(LoadedSyncedAt),
                                            !.syncingInBackground = (marker # 0),
                                            !.triggered = trigger]}
                  /\ UNCHANGED calls
          ELSE /\ EnterSyncBlocking(i, c)
               /\ returned' = {}
               /\ UNCHANGED <<inMemoryTree, lastSyncedAt, syncInProgress>>
    /\ UNCHANGED <<now, disk, nodeCache>>

ForceSync ==
    /\ UNCHANGED <<storeVars, sessionVars>>
    /\ issued < MaxCalls
    /\ issued' = issued + 1
    /\ EnterSyncBlocking(issued + 1, NewCall("forceSync", ROOT, TRUE, <<>>))
    /\ returned' = {}
    /\ UNCHANGED <<now, inMemoryTree, lastSyncedAt, disk, syncInProgress, nodeCache>>

\* NodeService.search: await getTree(), then search the mirror that is resident.
Search(query, options, startNodeId) ==
    /\ UNCHANGED <<storeVars, sessionVars>>
    /\ issued < MaxCalls
    /\ issued' = issued + 1
    /\ LET i == issued + 1
           c == [NewCall("search", startNodeId, FALSE, <<>>) EXCEPT !.query = query, !.options = options]
       IN IF CacheHit(FALSE)
          THEN LET trigger == TriggersBackground(LoadedSyncedAt)
                   marker == IF trigger THEN i ELSE syncInProgress
               IN /\ inMemoryTree' = LoadedTree
                  /\ lastSyncedAt' = LoadedSyncedAt
                  /\ syncs' = IF trigger THEN (i :> NewSync("bg")) @@ syncs ELSE syncs
                  /\ syncInProgress' = marker
                  /\ returned' = {SearchAnswer([c EXCEPT !.outcome = "tree", !.tree = LoadedTree,
                                                         !.stale = IsStaleAt(LoadedSyncedAt),
                                                         !.syncingInBackground = (marker # 0),
                                                         !.triggered = trigger],
                                               LoadedTree)}
                  /\ UNCHANGED calls
          ELSE /\ EnterSyncBlocking(i, c)
               /\ returned' = {}
               /\ UNCHANGED <<inMemoryTree, lastSyncedAt, syncInProgress>>
    /\ UNCHANGED <<now, disk, nodeCache>>

----------------------------------------------------------------------------
(* TreeSyncService: syncSubtree *)

\* A graft that keeps the fetched lists and empties every other one.
GraftIntoAlone(t, sub) == Prune([x \in (DOMAIN t \cup DOMAIN sub) |-> IF x \in DOMAIN sub THEN sub[x] ELSE <<>>])

\* target.node.ch = subtree: the fetched lists replace those of the node and its descendants.
GraftInto(t, sub) == Prune([x \in (DOMAIN t \cup DOMAIN sub) |-> IF x \in DOMAIN sub THEN sub[x] ELSE t[x]])

\* A skeleton step that pushes a stub for every segment, present or not.
WithStubAlways(t, level, seg) == [t EXCEPT ![level] = Append(@, seg)]

\* currentLevel.find(n => n.id === segment.id), and the push of a stub when nothing is found
WithStub(t, level, seg) == IF seg \in Range(t[level]) THEN t ELSE [t EXCEPT ![level] = Append(@, seg)]

RECURSIVE Skeleton(_, _, _, _, _, _)
\* The skeleton loop over pathContext[i..]: level is the node whose children list is
\* currentLevel.  Missing segments are pushed as stubs with ch = [].
Skeleton(t, ctx, i, level, nodeId, sub) ==
    IF i > Len(ctx) THEN [tree |-> t, target |-> FALSE]
    ELSE LET seg == ctx[i]
             t1 == WithStub(t, level, seg)
         IN IF seg = nodeId
            THEN [tree |-> GraftInto(t1, sub), target |-> TRUE]
            ELSE LET t2 == IF seg \in DOMAIN t1 THEN t1 ELSE t1 @@ (seg :> <<>>)
                 IN Skeleton(t2, ctx, i + 1, seg, nodeId, sub)

\* A graft that persists the tree under the current time.
GraftRecordNow(tree) == Record(now, tree)

\* this.cache.set('tree', { syncedAt: this.lastSyncedAt, root: this.inMemoryTree || [] })
GraftRecord(tree) == Record(lastSyncedAt, tree)

\* A graft that ignores the path context: a node absent from the mirror is never a target.
GraftedWithoutContext(t, nodeId, ctx, sub) ==
    IF FindNodeById(t, nodeId) THEN [tree |-> GraftInto(t, sub), target |-> TRUE]
    ELSE [tree |-> t, target |-> FALSE]

\* Lines 234-280: the mirror after grafting, and whether a target was found.
Grafted(t, nodeId, ctx, sub) ==
    IF FindNodeById(t, nodeId) THEN [tree |-> GraftInto(t, sub), target |-> TRUE]
    ELSE IF ctx # <<>> THEN Skeleton(IF t = Null THEN EmptyTree ELSE t, ctx, 2, ROOT, nodeId, sub)
    ELSE [tree |-> t, target |-> FALSE]

\* A cold syncSubtree may start from an empty mirror when the path context is rooted.
ColdSkeleton(ctx) == ctx # <<>> /\ ctx[1] = ROOT

SyncSubtree(node, ctx) ==
    /\ UNCHANGED <<storeVars, sessionVars>>
    /\ issued < MaxCalls
    /\ issued' = issued + 1
    /\ LET i == issued + 1
           c == NewCall("syncSubtree", node, FALSE, ctx)
           fetching == [c EXCEPT !.pc = "awaitSubtree", !.pending = {node}, !.waited = TRUE]
       IN IF LoadedTree # Null
          THEN /\ inMemoryTree' = LoadedTree
               /\ lastSyncedAt' = LoadedSyncedAt
               /\ calls' = (i :> fetching) @@ calls
               /\ UNCHANGED syncs
          ELSE IF ColdSkeleton(ctx)
          THEN /\ inMemoryTree' = EmptyTree
               /\ calls' = (i :> fetching) @@ calls
               /\ UNCHANGED <<lastSyncedAt, syncs>>
          ELSE /\ EnterSyncBlocking(i, c)
               /\ UNCHANGED <<inMemoryTree, lastSyncedAt>>
    /\ returned' = {}
    /\ UNCHANGED <<now, disk, syncInProgress, nodeCache>>

\* The remote store answers request p of the subtree fetch of invocation i.  After the last
\* answer the subtree is grafted and persisted under the old syncedAt, or the invocation falls
\* back to syncBlocking.
SubtreeRespond(i, p) ==
    /\ UNCHANGED <<storeVars, sessionVars>>
    /\ i \in DOMAIN calls
    /\ calls[i].pc = "awaitSubtree"
    /\ p \in calls[i].pending
    /\ LET c == calls[i]
           got2 == GotAfter(c.got, p)
           pending2 == PendingAfter(c.pending, p)
           g == Grafted(inMemoryTree, c.node, c.ctx, got2)
       IN IF pending2 # {}
          THEN /\ calls' = [calls EXCEPT ![i] = [c EXCEPT !.pending = pending2, !.got = got2]]
               /\ returned' = {}
               /\ UNCHANGED <<inMemoryTree, disk, syncs>>
          ELSE IF g.target
          THEN /\ inMemoryTree' = g.tree
               /\ disk' = GraftRecord(g.tree)
               /\ calls' = [j \in (DOMAIN calls \ {i}) |-> calls[j]]
               /\ returned' = {[c EXCEPT !.pc = "done", !.outcome = "list", !.cause = "ok",
                                         !.pending = {}, !.got = Null, !.list = got2[c.node]]}
               /\ UNCHANGED syncs
          ELSE /\ inMemoryTree' = g.tree
               /\ EnterSyncBlocking(i, [c EXCEPT !.pending = {}, !.got = Null])
               /\ returned' = {}
               /\ UNCHANGED disk
    /\ UNCHANGED <<now, lastSyncedAt, syncInProgress, issued, nodeCache>>

\* The remote store rejects a request of the subtree fetch: the error is rethrown.
SubtreeFail(i, p) ==
    /\ UNCHANGED <<storeVars, sessionVars>>
    /\ i \in DOMAIN calls
    /\ calls[i].pc = "awaitSubtree"
    /\ p \in calls[i].pending
    /\ calls' = [j \in (DOMAIN calls \ {i}) |-> calls[j]]
    /\ returned' = {[calls[i] EXCEPT !.pc = "done", !.outcome = "error", !.err = "remote",
                                     !.cause = "remote", !.pending = {}, !.got = Null]}
    /\ UNCHANGED <<now, inMemoryTree, lastSyncedAt, disk, syncInProgress, syncs, issued, nodeCache>>

----------------------------------------------------------------------------
(* NodeService: getChildren *)

\* Tier 1: the strict per-parent cache.
NodeCacheHit(node, force) == ~force /\ node \in DOMAIN nodeCache

\* A lookup that skips the mirror tier.
MirrorHitNever(node, force) == FALSE

\* Tier 2: the resident mirror holds the node with a children list, or the node is the root.
MirrorHit(node, force) ==
    /\ ~force
    /\ inMemoryTree # Null
    /\ \/ FindNodeById(inMemoryTree, node) /\ node \in DOMAIN inMemoryTree
       \/ node = ROOT

GetChildren(node, force) ==
    /\ UNCHANGED <<storeVars, sessionVars>>
    /\ issued < MaxCalls
    /\ issued' = issued + 1
    /\ LET c == NewCall("getChildren", node, force, <<>>)
       IN IF NodeCacheHit(node, force)
          THEN /\ returned' = {[c EXCEPT !.outcome = "list", !.list = nodeCache[node]]}
               /\ UNCHANGED <<nodeCache, calls>>
          ELSE IF MirrorHit(node, force)
          THEN /\ nodeCache' = (node :> inMemoryTree[node]) @@ nodeCache
               /\ returned' = {[c EXCEPT !.outcome = "list", !.list = inMemoryTree[node]]}
               /\ UNCHANGED calls
          ELSE /\ calls' = ((issued + 1) :> [c EXCEPT !.pc = "awaitRemote", !.waited = TRUE]) @@ calls
               /\ returned' = {}
               /\ UNCHANGED nodeCache
    /\ UNCHANGED <<now, inMemoryTree, lastSyncedAt, disk, syncInProgress, syncs>>

\* Tier 3 answered: sort by k, insert into the per-parent cache.
ChildrenRespond(i) ==
    /\ UNCHANGED <<storeVars, sessionVars>>
    /\ i \in DOMAIN calls
    /\ calls[i].pc = "awaitRemote"
    /\ LET children == SortByK(RemoteChildren(calls[i].node))
       IN /\ nodeCache' = (calls[i].node :> children) @@ nodeCache
          /\ returned' = {[calls[i] EXCEPT !.pc = "done", !.outcome = "list",
                                           !.cause = "ok", !.list = children]}
    /\ calls' = [j \in (DOMAIN calls \ {i}) |-> calls[j]]
    /\ UNCHANGED <<now, inMemoryTree, lastSyncedAt, disk, syncInProgress, syncs, issued>>

ChildrenFail(i) ==
    /\ UNCHANGED <<storeVars, sessionVars>>
    /\ i \in DOMAIN calls
    /\ calls[i].pc = "awaitRemote"
    /\ returned' = {[calls[i] EXCEPT !.pc = "done", !.outcome = "error", !.err = "remote",
                                     !.cause = "remote"]}
    /\ calls' = [j \in (DOMAIN calls \ {i}) |-> calls[j]]
    /\ UNCHANGED <<now, inMemoryTree, lastSyncedAt, disk, syncInProgress, syncs, issued, nodeCache>>

----------------------------------------------------------------------------
(* NodeService: getNode and the mutations *)

\* getNode answers from the resident mirror alone.
GetNode(id) ==
    /\ issued < MaxCalls
    /\ issued' = issued + 1
    /\ returned' = {[NewCall("getNode", id, FALSE, <<>>) EXCEPT
                        !.outcome = IF FindNodeById(inMemoryTree, id) THEN "node" ELSE "notFound"]}
    /\ UNCHANGED <<now, inMemoryTree, lastSyncedAt, disk, syncInProgress, syncs, calls, nodeCache>>
    /\ UNCHANGED <<storeVars, sessionVars>>

MutationOps == {"createNode", "deleteNode", "updateNode", "completeNode", "uncompleteNode", "moveNode"}

\* The id the remote store gives to the node it creates.
NewId == "d"

\* The tree without the node: it is taken out of its parent's list, and its subtree goes with it.
Without(t, id) == Prune([p \in DOMAIN t |-> SelectSeq(t[p], LAMBDA y : y # id)])

\* The tree with the node (and its subtree) moved to the end of another parent's list.
MovedTo(t, id, parentId) ==
    LET t1 == [p \in DOMAIN t |-> SelectSeq(t[p], LAMBDA y : y # id)]
    IN [t1 EXCEPT ![parentId] = Append(@, id)]

\* Can the remote store carry out the mutation of invocation c?
RemoteAccepts(c) ==
    LET nodes == Reach(remote, ROOT)
    IN CASE c.op = "createNode" -> c.parentId \in nodes /\ NewId \notin nodes
         [] c.op = "moveNode" -> c.node \in nodes \ {ROOT} /\ c.parentId \in nodes \ Reach(remote, c.node)
         [] OTHER -> c.node \in nodes \ {ROOT}

\* The outline on the remote store after the mutation of invocation c.
RemoteAfter(c) ==
    CASE c.op = "createNode" -> [remote EXCEPT ![c.parentId] = Append(@, NewId)] @@ (NewId :> <<>>)
      [] c.op = "deleteNode" -> Without(remote, c.node)
      [] c.op = "moveNode" -> MovedTo(remote, c.node, c.parentId)
      [] OTHER -> remote

\* this.nodeCache.delete(parentId) for createNode, this.nodeCache.clear() for the others
Invalidated(c) ==
    IF c.op = "createNode"
    THEN [p \in (DOMAIN nodeCache \ {c.parentId}) |-> nodeCache[p]]
    ELSE Null

\* addNodeToCache: the created node is appended under its parent where the mirror holds the parent.
AddNodeToCache(t, parentId, id) ==
    IF t = Null \/ ~(parentId = ROOT \/ FindNodeById(t, parentId)) THEN t
    ELSE IF parentId \in DOMAIN t THEN [t EXCEPT ![parentId] = Append(@, id)]
    ELSE t @@ (parentId :> <<id>>)

\* removeNodeFromCache: the node is taken out of the mirror where the mirror holds it.
RemoveNodeFromCache(t, id) == IF t = Null THEN t ELSE Without(t, id)

\* The mirror after the patch that follows the remote call.  updateNodeInCache changes fields
\* of a node and no children list; moveNode patches nothing.
Patched(c) ==
    CASE c.op = "createNode" -> AddNodeToCache(inMemoryTree, c.parentId, NewId)
      [] c.op = "deleteNode" -> RemoveNodeFromCache(inMemoryTree, c.node)
      [] OTHER -> inMemoryTree

\* Statements after the await that run whether or not the remote call succeeded.
AfterRemoteCallAlways(c, ok) == [nodeCache |-> Invalidated(c), tree |-> Patched(c)]

\* The statements after `await this.client.<mutation>(...)` run only when it resolved.
AfterRemoteCall(c, ok) ==
    IF ok THEN [nodeCache |-> Invalidated(c), tree |-> Patched(c)]
    ELSE [nodeCache |-> nodeCache, tree |-> inMemoryTree]

\* A mutation is called: the request goes to the remote store.
Mutation(op, node, parentId, priority) ==
    /\ issued < MaxCalls
    /\ issued' = issued + 1
    /\ calls' = ((issued + 1) :> [NewCall(op, node, FALSE, <<>>) EXCEPT
                                     !.pc = "awaitMutation", !.waited = TRUE,
                                     !.parentId = parentId, !.priority = priority]) @@ calls
    /\ returned' = {}
    /\ UNCHANGED <<now, inMemoryTree, lastSyncedAt, disk, syncInProgress, syncs, nodeCache>>
    /\ UNCHANGED <<storeVars, sessionVars>>

\* The remote store carries the mutation out and answers: caches are invalidated and patched.
MutationRespond(i) ==
    /\ i \in DOMAIN calls
    /\ calls[i].pc = "awaitMutation"
    /\ RemoteAccepts(calls[i])
    /\ remote' = RemoteAfter(calls[i])
    /\ names' = IF calls[i].op = "createNode" THEN (NewId :> <<"n">>) @@ names ELSE names
    /\ nodeCache' = AfterRemoteCall(calls[i], TRUE).nodeCache
    /\ inMemoryTree' = AfterRemoteCall(calls[i], TRUE).tree
    /\ calls' = [j \in (DOMAIN calls \ {i}) |-> calls[j]]
    /\ returned' = {[calls[i] EXCEPT !.pc = "done", !.outcome = "done", !.cause = "ok"]}
    /\ UNCHANGED <<now, lastSyncedAt, disk, syncInProgress, syncs, issued, sessionVars>>

\* The remote call of the mutation fails (network error, or the store refuses): the rejection
\* leaves the mutation's function at the await.
MutationFail(i) ==
    /\ i \in DOMAIN calls
    /\ calls[i].pc = "awaitMutation"
    /\ nodeCache' = AfterRemoteCall(calls[i], FALSE).nodeCache
    /\ inMemoryTree' = AfterRemoteCall(calls[i], FALSE).tree
    /\ calls' = [j \in (DOMAIN calls \ {i}) |-> calls[j]]
    /\ returned' = {[calls[i] EXCEPT !.pc = "done", !.outcome = "error", !.err = "remote",
                                     !.cause = "remote"]}
    /\ UNCHANGED <<now, lastSyncedAt, disk, syncInProgress, syncs, issued, storeVars, sessionVars>>

----------------------------------------------------------------------------
(* PathResolver and SessionState *)

\* null
NotFound == ""

\* The id of a node as the string a path segment is compared with.
IdString(id) == IF id = ROOT THEN <<"N", "o", "n", "e">> ELSE <<id>>

\* An anchor test that knows '~/' only.
AnchorTildeOnly(pathStr) ==
    IF StartsWith(pathStr, <<"~", "/">>)
    THEN [abs |-> TRUE, rest |-> SubSeq(pathStr, 3, Len(pathStr))]
    ELSE [abs |-> FALSE, rest |-> pathStr]

\* startsWith('~/') / startsWith('/'): the path is absolute, the anchor is sliced off
Anchor(pathStr) ==
    IF StartsWith(pathStr, <<"~", "/">>)
    THEN [abs |-> TRUE, rest |-> SubSeq(pathStr, 3, Len(pathStr))]
    ELSE IF StartsWith(pathStr, <<"/">>)
    THEN [abs |-> TRUE, rest |-> SubSeq(pathStr, 2, Len(pathStr))]
    ELSE [abs |-> FALSE, rest |-> pathStr]

\* resolveOneLevel on the children list that getChildren answered with
ResolveOneLevel(children, arg) ==
    LET index == ParseInt(arg)
        exactMatches == SelectSeq(children, LAMBDA c : Name(c) = arg)
        uuidMatches == SelectSeq(children, LAMBDA c : IdString(c) = arg)
        fuzzyMatches == SelectSeq(children, LAMBDA c : StartsWith(ToLowerCase(Name(c)), ToLowerCase(arg)))
    IN IF index # NaN /\ index >= 1 /\ index <= Len(children) THEN children[index]
       ELSE IF Len(exactMatches) = 1 THEN exactMatches[1]
       ELSE IF uuidMatches # <<>> THEN uuidMatches[1]
       ELSE IF Len(fuzzyMatches) = 1 THEN fuzzyMatches[1]
       ELSE NotFound

\* The list an unforced getChildren(p) answers with when the remote store answers.
ChildrenOf(p) ==
    IF NodeCacheHit(p, FALSE) THEN nodeCache[p]
    ELSE IF MirrorHit(p, FALSE) THEN inMemoryTree[p]
    ELSE SortByK(RemoteChildren(p))

\* The parents whose children an unforced getChildren answers without the remote store.
Everywhere == Ids \cup {ROOT, NewId}

\* The parents whose children an unforced getChildren answers without the remote store.
Local == {p \in Everywhere : NodeCacheHit(p, FALSE) \/ MirrorHit(p, FALSE)}

\* The loop of resolvePath from segment i on, on a simulated stack.  It stops with "need" at a
\* parent whose children are not in avail, with "notFound" at an unresolved segment.
RECURSIVE ResolveSegs(_, _, _, _, _, _, _)
ResolveSegs(avail, segs, i, lookupId, pathStack, currentNode, visited) ==
    IF i > Len(segs)
    THEN [status |-> "done", i |-> i, lookupId |-> lookupId, pathStack |-> pathStack,
          currentNode |-> currentNode, visited |-> visited]
    ELSE IF segs[i] = DotDot
    THEN IF Len(pathStack) > 1
         THEN LET st == SubSeq(pathStack, 1, Len(pathStack) - 1)
              IN ResolveSegs(avail, segs, i + 1, st[Len(st)], st, st[Len(st)], visited)
         ELSE ResolveSegs(avail, segs, i + 1, lookupId, pathStack, ROOT, visited)
    ELSE IF lookupId \notin avail
    THEN [status |-> "need", i |-> i, lookupId |-> lookupId, pathStack |-> pathStack,
          currentNode |-> currentNode, visited |-> visited]
    ELSE LET nextNode == ResolveOneLevel(ChildrenOf(lookupId), segs[i])
         IN IF nextNode = NotFound
            THEN [status |-> "notFound", i |-> i, lookupId |-> lookupId, pathStack |-> pathStack,
                  currentNode |-> NotFound, visited |-> visited \cup {lookupId}]
            ELSE ResolveSegs(avail, segs, i + 1, nextNode, Append(pathStack, nextNode), nextNode,
                             visited \cup {lookupId})

\* A popPath without the length test: the root's breadcrumb is popped as well.
PopPathAlways(path, id) ==
    [path |-> SubSeq(path, 1, Len(path) - 1), id |-> IF Len(path) > 1 THEN path[Len(path) - 1] ELSE id]

\* A popPath that drops the breadcrumb and keeps the current node id.
PopPathKeepId(path, id) ==
    IF Len(path) > 1 THEN [path |-> SubSeq(path, 1, Len(path) - 1), id |-> id]
    ELSE [path |-> path, id |-> id]

\* SessionState.popPath
PopPath(path, id) ==
    IF Len(path) > 1
    THEN [path |-> SubSeq(path, 1, Len(path) - 1), id |-> path[Len(path) - 1]]
    ELSE [path |-> path, id |-> id]

\* The loop of walkAndChange from segment i on, on the session's own location.
RECURSIVE WalkSegs(_, _, _, _, _, _)
WalkSegs(avail, segs, i, id, path, visited) ==
    IF i > Len(segs)
    THEN [status |-> "done", i |-> i, id |-> id, path |-> path, visited |-> visited]
    ELSE IF segs[i] = DotDot
    THEN LET q == PopPath(path, id) IN WalkSegs(avail, segs, i + 1, q.id, q.path, visited)
    ELSE IF id \notin avail
    THEN [status |-> "need", i |-> i, id |-> id, path |-> path, visited |-> visited]
    ELSE LET nextNode == ResolveOneLevel(ChildrenOf(id), segs[i])
         IN IF nextNode = NotFound
            THEN [status |-> "error", i |-> i, id |-> id, path |-> path, visited |-> visited \cup {id}]
            ELSE WalkSegs(avail, segs, i + 1, nextNode, Append(path, nextNode), visited \cup {id})

\* resolvePath entered on a path: the anchor decides the lookup id and the simulated stack.
StartResolve(c, pathStr, id, path) ==
    [c EXCEPT !.phase = "resolve", !.arg = pathStr, !.seg = 1, !.currentNode = NotFound,
              !.lookupId = IF Anchor(pathStr).abs THEN ROOT ELSE id,
              !.pathStack = IF Anchor(pathStr).abs THEN <<ROOT>> ELSE path]

\* A resolvePath or changeDirectory invocation run from where it stands until it returns or
\* has to wait for the remote store: the resolve phase, the retry from the root, the walk.
RECURSIVE Advance(_, _, _, _)

\* walkAndChange entered on a path: '~' and the anchors reset the session to the root.
WalkAndChange(c, pathStr, avail, id, path) ==
    IF pathStr = <<"~">>
    THEN [c |-> [c EXCEPT !.pc = "done", !.phase = "walk", !.arg = pathStr, !.outcome = "done"],
          id |-> ROOT, path |-> <<ROOT>>, visited |-> {}, suspended |-> FALSE]
    ELSE LET abs == Anchor(pathStr).abs
         IN Advance([c EXCEPT !.phase = "walk", !.arg = pathStr, !.seg = 1],
                    avail, IF abs THEN ROOT ELSE id, IF abs THEN <<ROOT>> ELSE path)

Advance(c, avail, id, path) ==
    LET segs == Segments(Anchor(c.arg).rest)
    IN IF c.phase = "resolve" /\ c.arg = <<"~">>
       THEN [c |-> [c EXCEPT !.pc = "done", !.outcome = "node", !.currentNode = ROOT],
             id |-> id, path |-> path, visited |-> {}, suspended |-> FALSE]
       ELSE IF c.phase = "resolve"
       THEN LET r == ResolveSegs(avail, segs, c.seg, c.lookupId, c.pathStack, c.currentNode, {})
                target == IF segs = <<>> THEN c.lookupId ELSE r.currentNode
            IN IF r.status = "need"
               THEN [c |-> [c EXCEPT !.pc = "awaitChildren", !.node = r.lookupId, !.seg = r.i,
                                     !.lookupId = r.lookupId, !.pathStack = r.pathStack,
                                     !.currentNode = r.currentNode, !.waited = TRUE],
                     id |-> id, path |-> path, visited |-> r.visited, suspended |-> TRUE]
               ELSE IF c.op = "resolvePath"
               THEN [c |-> [c EXCEPT !.pc = "done", !.currentNode = target,
                                     !.outcome = IF target = NotFound THEN "notFound" ELSE "node"],
                     id |-> id, path |-> path, visited |-> r.visited, suspended |-> FALSE]
               ELSE IF target = NotFound /\ ~StartsWith(c.arg, <<"/">>) /\ "/" \in Range(c.arg)
               THEN LET n == Advance(StartResolve([c EXCEPT !.retried = TRUE], <<"/">> \o c.arg, id, path),
                                     avail, id, path)
                    IN [n EXCEPT !.visited = n.visited \cup r.visited]
               ELSE IF target = NotFound
               THEN [c |-> [c EXCEPT !.pc = "done", !.outcome = "error", !.err = "notFound",
                                     !.currentNode = NotFound],
                     id |-> id, path |-> path, visited |-> r.visited, suspended |-> FALSE]
               ELSE LET n == WalkAndChange([c EXCEPT !.currentNode = target], c.arg, avail, id, path)
                    IN [n EXCEPT !.visited = n.visited \cup r.visited]
       ELSE LET w == WalkSegs(avail, segs, c.seg, id, path, {})
            IN IF w.status = "need"
               THEN [c |-> [c EXCEPT !.pc = "awaitChildren", !.node = w.id, !.seg = w.i, !.waited = TRUE],
                     id |-> w.id, path |-> w.path, visited |-> w.visited, suspended |-> TRUE]
               ELSE [c |-> [c EXCEPT !.pc = "done",
                                     !.outcome = IF w.status = "done" THEN "done" ELSE "error",
                                     !.err = IF w.status = "done" THEN "none" ELSE "segment"],
                     id |-> w.id, path |-> w.path, visited |-> w.visited, suspended |-> FALSE]

\* The effect of one run of invocation i: the session's location, the lists getChildren
\* put into the per-parent cache on the way, and the invocation returned or suspended.
Settle(i, n) ==
    /\ currentNodeId' = n.id
    /\ currentPath' = n.path
    /\ nodeCache' = [p \in DOMAIN nodeCache \cup n.visited |-> ChildrenOf(p)]
    /\ IF n.suspended
       THEN /\ calls' = (i :> n.c) @@ [j \in (DOMAIN calls \ {i}) |-> calls[j]]
            /\ returned' = {}
       ELSE /\ calls' = [j \in (DOMAIN calls \ {i}) |-> calls[j]]
            /\ returned' = {n.c}

ResolvePath(pathStr) ==
    /\ issued < MaxCalls
    /\ issued' = issued + 1
    /\ Settle(issued + 1,
              Advance(StartResolve(NewCall("resolvePath", currentNodeId, FALSE, <<>>),
                                   pathStr, currentNodeId, currentPath),
                      Local, currentNodeId, currentPath))
    /\ UNCHANGED <<now, inMemoryTree, lastSyncedAt, disk, syncInProgress, syncs, storeVars>>

ChangeDirectory(arg) ==
    /\ issued < MaxCalls
    /\ issued' = issued + 1
    /\ LET c == [NewCall("changeDirectory", currentNodeId, FALSE, <<>>) EXCEPT !.arg = arg]
       IN IF arg = <<"~">> \/ arg = <<"/">>
          THEN Settle(issued + 1, [c |-> [c EXCEPT !.outcome = "done", !.currentNode = ROOT],
                                   id |-> ROOT, path |-> <<ROOT>>, visited |-> {},
                                   suspended |-> FALSE])
          ELSE Settle(issued + 1,
                      Advance(StartResolve(c, arg, currentNodeId, currentPath),
                              Local, currentNodeId, currentPath))
    /\ UNCHANGED <<now, inMemoryTree, lastSyncedAt, disk, syncInProgress, syncs, storeVars>>

\* The remote store answered the getChildren a path operation waits for.
NavRespond(i) ==
    /\ i \in DOMAIN calls
    /\ calls[i].pc = "awaitChildren"
    /\ Settle(i, Advance(calls[i], Local \cup {calls[i].node}, currentNodeId, currentPath))
    /\ UNCHANGED <<now, inMemoryTree, lastSyncedAt, disk, syncInProgress, syncs, issued, storeVars>>

\* The remote store failed it: getChildren throws, and so does the path operation.
NavFail(i) ==
    /\ i \in DOMAIN calls
    /\ calls[i].pc = "awaitChildren"
    /\ calls' = [j \in (DOMAIN calls \ {i}) |-> calls[j]]
    /\ returned' = {[calls[i] EXCEPT !.pc = "done", !.outcome = "error", !.err = "remote",
                                     !.cause = "remote"]}
    /\ UNCHANGED <<now, inMemoryTree, lastSyncedAt, disk, syncInProgress, syncs, issued, nodeCache>>
    /\ UNCHANGED <<storeVars, sessionVars>>

----------------------------------------------------------------------------
(* SessionState: the mutators called directly *)

\* A synchronous SessionState call returns in the turn it is made.
StateCall(op, node, id, path) ==
    /\ currentNodeId' = id
    /\ currentPath' = path
    /\ returned' = {[NewCall(op, node, FALSE, <<>>) EXCEPT !.outcome = "done"]}

\* setNode(node): the id becomes current and a breadcrumb is pushed.
SetNode(node) ==
    /\ Len(currentPath) < MaxDepth
    /\ StateCall("setNode", node, node, Append(currentPath, node))
    /\ UNCHANGED <<now, inMemoryTree, lastSyncedAt, disk, syncInProgress, syncs, calls, issued,
                   nodeCache, storeVars>>

\* setPath(path): an empty path resets to the root, any other is adopted with its last id.
SetPath(path) ==
    /\ IF path = <<>> THEN StateCall("setPath", ROOT, ROOT, <<ROOT>>)
       ELSE StateCall("setPath", path[Len(path)], path[Len(path)], path)
    /\ UNCHANGED <<now, inMemoryTree, lastSyncedAt, disk, syncInProgress, syncs, calls, issued,
                   nodeCache, storeVars>>

\* popPath()
PopPathCall ==
    /\ LET q == PopPath(currentPath, currentNodeId)
       IN StateCall("popPath", currentNodeId, q.id, q.path)
    /\ UNCHANGED <<now, inMemoryTree, lastSyncedAt, disk, syncInProgress, syncs, calls, issued,
                   nodeCache, storeVars>>

\* resetToRoot()
ResetToRoot ==
    /\ StateCall("resetToRoot", ROOT, ROOT, <<ROOT>>)
    /\ UNCHANGED <<now, inMemoryTree, lastSyncedAt, disk, syncInProgress, syncs, calls, issued,
                   nodeCache, storeVars>>

----------------------------------------------------------------------------
(* Session.jumpToNodeId *)

RECURSIVE Join(_, _)
\* pathInfo.map(p => p.name).join("/")
Join(path, i) ==
    IF i > Len(path) THEN <<>>
    ELSE IF i = Len(path) THEN Name(path[i])
    ELSE Name(path[i]) \o <<"/">> \o Join(path, i + 1)

\* NodeService.getPathFromNode: findNodeById(nodeId)?.path, the segments findRecursive
\* collected on its way down to the node.
GetPathFromNode(nodeId) == FindRecursive(inMemoryTree, inMemoryTree[ROOT], 1, nodeId, <<>>)

\* changeDirectory(arg) run for invocation c from the session's location.
RunChangeDirectory(c, arg) ==
    IF arg = <<"~">> \/ arg = <<"/">>
    THEN [c |-> [c EXCEPT !.pc = "done", !.arg = arg, !.outcome = "done", !.currentNode = ROOT],
          id |-> ROOT, path |-> <<ROOT>>, visited |-> {}, suspended |-> FALSE]
    ELSE Advance(StartResolve(c, arg, currentNodeId, currentPath), Local, currentNodeId, currentPath)

\* Strategy C: await this.nodeService.forceSync(), from the location the hint left.
JumpForceSync(i, c, id, path, visited) ==
    /\ currentNodeId' = id
    /\ currentPath' = path
    /\ nodeCache' = [p \in DOMAIN nodeCache \cup visited |-> ChildrenOf(p)]
    /\ EnterSyncBlocking(i, [c EXCEPT !.stage = "sync", !.outcome = "pending", !.err = "none",
                                      !.force = TRUE])
    /\ returned' = {}

\* One run n of a changeDirectory inside jumpToNodeId: the hinted one returns when it landed on
\* the node and otherwise (thrown or elsewhere) gives way to the forced sync; the final one
\* returns or throws for the jump.
JumpSettle(i, n) ==
    IF n.suspended \/ n.c.stage = "final" \/ (n.c.outcome = "done" /\ n.id = n.c.jumpId)
    THEN Settle(i, n) /\ syncs' = syncs
    ELSE JumpForceSync(i, n.c, n.id, n.path, n.visited)

\* if (node): the path of names from getPathFromNode, then changeDirectory on it.
JumpFinal(i, c) ==
    JumpSettle(i, RunChangeDirectory([c EXCEPT !.stage = "final"],
                                     <<"/">> \o Join(GetPathFromNode(c.jumpId), 1)))

JumpToNodeId(nodeId, pathHint) ==
    /\ issued < MaxCalls
    /\ issued' = issued + 1
    /\ LET i == issued + 1
           c == [NewCall("jumpToNodeId", nodeId, FALSE, <<>>) EXCEPT !.hint = pathHint, !.jumpId = nodeId]
       IN IF FindNodeById(inMemoryTree, nodeId) THEN JumpFinal(i, c)
          ELSE IF pathHint # <<>> THEN JumpSettle(i, RunChangeDirectory([c EXCEPT !.stage = "hint"], pathHint))
          ELSE JumpForceSync(i, c, currentNodeId, currentPath, {})
    /\ UNCHANGED <<now, inMemoryTree, lastSyncedAt, disk, syncInProgress, storeVars>>

\* A jump's forced sync has settled and some jump has not gone on yet.
JumpPending == \E i \in DOMAIN calls : calls[i].pc = "afterSync"

\* After the forced sync: getNode again; the jump goes on when the node is in the mirror now
\* and throws otherwise (so it does when forceSync threw, which leaves no mirror).
JumpContinue(i) ==
    /\ i \in DOMAIN calls
    /\ calls[i].pc = "afterSync"
    /\ IF FindNodeById(inMemoryTree, calls[i].jumpId)
       THEN JumpFinal(i, calls[i])
       ELSE /\ calls' = [j \in (DOMAIN calls \ {i}) |-> calls[j]]
            /\ returned' = {[calls[i] EXCEPT !.pc = "done", !.outcome = "error", !.err = "notFoundAfterSync"]}
            /\ UNCHANGED <<syncs, nodeCache, sessionVars>>
    /\ UNCHANGED <<now, inMemoryTree, lastSyncedAt, disk, syncInProgress, issued, storeVars>>

\* The remote store answered the getChildren a jump's changeDirectory waits for.
JumpNavRespond(i) ==
    /\ i \in DOMAIN calls
    /\ calls[i].op = "jumpToNodeId" /\ calls[i].pc = "awaitChildren"
    /\ JumpSettle(i, Advance(calls[i], Local \cup {calls[i].node}, currentNodeId, currentPath))
    /\ UNCHANGED <<now, inMemoryTree, lastSyncedAt, disk, syncInProgress, issued, storeVars>>

\* The remote store failed it: the hinted changeDirectory's error is swallowed, the final
\* one's is the jump's.
JumpNavFail(i) ==
    /\ i \in DOMAIN calls
    /\ calls[i].op = "jumpToNodeId" /\ calls[i].pc = "awaitChildren"
    /\ IF calls[i].stage = "hint"
       THEN JumpForceSync(i, calls[i], currentNodeId, currentPath, {})
       ELSE /\ calls' = [j \in (DOMAIN calls \ {i}) |-> calls[j]]
            /\ returned' = {[calls[i] EXCEPT !.pc = "done", !.outcome = "error", !.err = "remote",
                                             !.cause = "remote"]}
            /\ UNCHANGED <<syncs, nodeCache, sessionVars>>
    /\ UNCHANGED <<now, inMemoryTree, lastSyncedAt, disk, syncInProgress, issued, storeVars>>

----------------------------------------------------------------------------
(* The system *)

\* Ages of the record a previous run may have left: 10 minutes (stale), and exactly the TTL
\* (not stale yet, stale after the next tick).
DiskSyncedAts == {0, StartTime - CACHE_TTL_MS}

\* The syncSubtree invocations tried: a node the old mirror holds (graft by id), and a node
\* it lacks, without path context (fallback) and with its breadcrumbs (skeleton graft).
SubtreeArgs == {[node |-> "a", ctx |-> <<>>], [node |-> "c", ctx |-> <<>>], [node |-> "c", ctx |-> PathTo("c")]}

ChildrenNodes == {ROOT, "a"}

Parents == Ids \cup {ROOT}

\* The names of the nodes of the outline.
PlainNames == ("a" :> <<"P", "r", "o">>) @@ ("b" :> <<"B", "o">>) @@ ("c" :> <<"x">>)

Init ==
    /\ now = StartTime
    /\ inMemoryTree = Null
    /\ lastSyncedAt = 0
    /\ disk \in {NoRecord} \cup {Record(at, OldTree) : at \in DiskSyncedAts}
    /\ syncInProgress = 0
    /\ syncs = Null
    /\ calls = Null
    /\ returned = {}
    /\ issued = 0
    /\ nodeCache = Null
    /\ remote = RemoteTree
    /\ names = PlainNames
    /\ currentNodeId = ROOT
    /\ currentPath = <<ROOT>>

Next ==
    \/ \E force \in BOOLEAN : GetTree(force)
    \/ ForceSync
    \/ \E x \in SubtreeArgs : SyncSubtree(x.node, x.ctx)
    \/ \E node \in ChildrenNodes, force \in BOOLEAN : GetChildren(node, force)
    \/ \E s \in 1..MaxCalls, p \in Parents : FetchRespond(s, p)
    \/ \E s \in 1..MaxCalls, p \in Parents : FetchFail(s, p)
    \/ \E s \in 1..MaxCalls : SyncTimeout(s)
    \/ \E s \in 1..MaxCalls : TimerExpire(s)
    \/ \E i \in 1..MaxCalls, p \in Parents : SubtreeRespond(i, p)
    \/ \E i \in 1..MaxCalls, p \in Parents : SubtreeFail(i, p)
    \/ \E i \in 1..MaxCalls : ChildrenRespond(i)
    \/ \E i \in 1..MaxCalls : ChildrenFail(i)
    \/ Tick

Spec == Init /\ [][Next]_vars

\* The engine alone: getTree and forceSync.
NextEngine ==
    \/ \E force \in BOOLEAN : GetTree(force)
    \/ ForceSync
    \/ \E s \in 1..MaxCalls, p \in Parents : FetchRespond(s, p)
    \/ \E s \in 1..MaxCalls, p \in Parents : FetchFail(s, p)
    \/ \E s \in 1..MaxCalls : SyncTimeout(s)
    \/ \E s \in 1..MaxCalls : TimerExpire(s)
    \/ Tick

SpecEngine == Init /\ [][NextEngine]_vars


\* Partial syncs alone; a syncSubtree that falls back runs a full sync.
NextSubtree ==
    \/ \E x \in SubtreeArgs : SyncSubtree(x.node, x.ctx)
    \/ \E s \in 1..MaxCalls, p \in Parents : FetchRespond(s, p)
    \/ \E s \in 1..MaxCalls, p \in Parents : FetchFail(s, p)
    \/ \E s \in 1..MaxCalls : SyncTimeout(s)
    \/ \E s \in 1..MaxCalls : TimerExpire(s)
    \/ \E i \in 1..MaxCalls, p \in Parents : SubtreeRespond(i, p)
    \/ \E i \in 1..MaxCalls, p \in Parents : SubtreeFail(i, p)
    \/ Tick

SpecSubtree == Init /\ [][NextSubtree]_vars


\* Lookups of children lists over the engine's reads.
NextChildren ==
    \/ \E force \in BOOLEAN : GetTree(force)
    \/ \E node \in ChildrenNodes, force \in BOOLEAN : GetChildren(node, force)
    \/ \E s \in 1..MaxCalls, p \in Parents : FetchRespond(s, p)
    \/ \E s \in 1..MaxCalls, p \in Parents : FetchFail(s, p)
    \/ \E s \in 1..MaxCalls : SyncTimeout(s)
    \/ \E s \in 1..MaxCalls : TimerExpire(s)
    \/ \E i \in 1..MaxCalls : ChildrenRespond(i)
    \/ \E i \in 1..MaxCalls : ChildrenFail(i)
    \/ Tick

SpecChildren == Init /\ [][NextChildren]_vars

\* The mutations tried: a node created under the empty b, the leaf c deleted, a's fields
\* updated and its completion toggled, c moved from a to b.
MutationArgs ==
    {[op |-> "createNode", node |-> "", parentId |-> "b", priority |-> 0],
     [op |-> "deleteNode", node |-> "c", parentId |-> "", priority |-> 0],
     [op |-> "updateNode", node |-> "a", parentId |-> "", priority |-> 0],
     [op |-> "completeNode", node |-> "a", parentId |-> "", priority |-> 0],
     [op |-> "uncompleteNode", node |-> "a", parentId |-> "", priority |-> 0],
     [op |-> "moveNode", node |-> "c", parentId |-> "b", priority |-> 0]}

\* The ids looked up: a top-level node, a nested one, and one the outline never held.
NodeArgs == {"a", "c", "z"}

\* An idle engine: cold with or without a persisted record, or holding the mirror that an
\* earlier full sync of the remote outline left (a state Spec reaches).
InitIdle ==
    /\ now = StartTime
    /\ \/ inMemoryTree = Null /\ lastSyncedAt = 0 /\ disk \in {NoRecord, Record(0, OldTree)}
       \/ inMemoryTree = RemoteTree /\ lastSyncedAt = StartTime /\ disk = Record(StartTime, RemoteTree)
    /\ syncInProgress = 0
    /\ syncs = Null
    /\ calls = Null
    /\ returned = {}
    /\ issued = 0
    /\ nodeCache = Null
    /\ remote = RemoteTree
    /\ names = PlainNames
    /\ currentNodeId = ROOT
    /\ currentPath = <<ROOT>>

\* Mutations and lookups on an idle engine.
NextMutation ==
    \/ \E m \in MutationArgs : Mutation(m.op, m.node, m.parentId, m.priority)
    \/ \E i \in 1..MaxCalls : MutationRespond(i)
    \/ \E i \in 1..MaxCalls : MutationFail(i)
    \/ \E id \in NodeArgs : GetNode(id)
    \/ \E node \in {"a", "b"}, force \in BOOLEAN : GetChildren(node, force)
    \/ \E i \in 1..MaxCalls : ChildrenRespond(i)
    \/ \E i \in 1..MaxCalls : ChildrenFail(i)

SpecMutation == InitIdle /\ [][NextMutation]_vars

\* Other namings of the same outline: two siblings with one name; two siblings whose names
\* share a prefix up to case; a name that starts with a digit next to a sibling named like
\* the first one's id.
DupNames == ("a" :> <<"P", "r">>) @@ ("b" :> <<"P", "r">>) @@ ("c" :> <<"x">>)

PrefixNames == ("a" :> <<"P", "a">>) @@ ("b" :> <<"p", "b">>) @@ ("c" :> <<"x">>)

DigitNames == ("a" :> <<"2", "x">>) @@ ("b" :> <<"a">>) @@ ("c" :> <<"x">>)

NameSchemes == {PlainNames, DupNames, PrefixNames, DigitNames}

\* The paths tried: anchors, dots, indexes, ids, names, prefixes, and combinations of them.
Paths ==
    {<<"/">>, <<"~">>, <<".", ".">>,
     <<".">>, <<"1">>, <<"2">>,
     <<"3">>, <<"a">>, <<"z">>,
     <<"P", "r", "o">>, <<"p", "r">>, <<"P">>,
     <<"p">>, <<"P", "r">>, <<"P", "a">>,
     <<"2", "x">>, <<"a", "/", "c">>, <<"a", "/", "x">>,
     <<"a", "/", "1">>, <<"/", "a", "/", ".", ".">>, <<".", ".", "/", "b">>,
     <<".", ".", "/", "a", "/", "c">>, <<"~", "/", "a">>, <<"a", "/", ".", ".", "/", "b">>,
     <<"1", "/", "1">>, <<"a", "/", "z">>, <<"c", "/", ".", ".">>}

\* The places a session can be at when a path operation starts.
Locations == {<<ROOT>>, <<ROOT, "a">>, <<ROOT, "a", "c">>}

\* A session after init(), somewhere in the outline, over an engine that holds the mirror
\* an earlier full sync left; its per-parent cache is empty, or holds the root's list as a
\* getChildren that went to the remote store before that sync sorted it.
InitResolve ==
    /\ now = StartTime
    /\ inMemoryTree = RemoteTree /\ lastSyncedAt = StartTime /\ disk = Record(StartTime, RemoteTree)
    /\ syncInProgress = 0
    /\ syncs = Null
    /\ calls = Null
    /\ returned = {}
    /\ issued = 0
    /\ nodeCache \in {Null, (ROOT :> SortByK(RemoteTree[ROOT]))}
    /\ remote = RemoteTree
    /\ names \in NameSchemes
    /\ currentPath \in Locations
    /\ currentNodeId = currentPath[Len(currentPath)]

NextResolve ==
    \/ \E pathStr \in Paths : ResolvePath(pathStr)
    \/ \E arg \in Paths : ChangeDirectory(arg)

SpecResolve == InitResolve /\ [][NextResolve]_vars

\* The paths a changeDirectory is tried on while other operations run: relative through the
\* parent, absolute, a single name, and one that fails.
SessionPaths ==
    {<<".", ".", "/", "a", "/", "c">>, <<"/", "a", "/", "c">>, <<"a">>, <<"a", "/", "z">>}

\* A session after init(), at the root or one level down, over a cold engine: its per-parent
\* cache is empty (as after a mutation cleared it).
InitSession ==
    /\ now = StartTime
    /\ inMemoryTree = Null /\ lastSyncedAt = 0 /\ disk = NoRecord
    /\ syncInProgress = 0
    /\ syncs = Null
    /\ calls = Null
    /\ returned = {}
    /\ issued = 0
    /\ nodeCache = Null
    /\ remote = RemoteTree
    /\ names = PlainNames
    /\ currentPath \in {<<ROOT>>, <<ROOT, "a">>}
    /\ currentNodeId = currentPath[Len(currentPath)]

NextSession ==
    \/ \E arg \in SessionPaths : ChangeDirectory(arg)
    \/ \E i \in 1..MaxCalls : NavRespond(i)
    \/ \E i \in 1..MaxCalls : NavFail(i)
    \/ \E m \in MutationArgs : Mutation(m.op, m.node, m.parentId, m.priority)
    \/ \E i \in 1..MaxCalls : MutationRespond(i)
    \/ \E i \in 1..MaxCalls : MutationFail(i)

SpecSession == InitSession /\ [][NextSession]_vars

\* The searches tried: substring queries with and without notes, with and without a limit,
\* from the root, from a node of either depth and from an id the outline lacks; and regular
\* expressions, one of them malformed.
SearchArgs ==
    {[query |-> <<"o">>, options |-> [includeNotes |-> TRUE, limit |-> l, isRegex |-> FALSE], start |-> ROOT] :
        l \in 0..2}
    \cup {[query |-> <<"o">>, options |-> [includeNotes |-> FALSE, limit |-> 0, isRegex |-> FALSE], start |-> ROOT],
          [query |-> <<"P">>, options |-> [includeNotes |-> TRUE, limit |-> 0, isRegex |-> FALSE], start |-> ROOT]}
    \cup {[query |-> <<"x">>, options |-> [includeNotes |-> TRUE, limit |-> 0, isRegex |-> FALSE], start |-> st] :
             st \in {"a", "c", "z"}}
    \cup {[query |-> <<"\\", "D">>, options |-> [includeNotes |-> FALSE, limit |-> 0, isRegex |-> TRUE], start |-> ROOT],
          [query |-> <<"(">>, options |-> [includeNotes |-> FALSE, limit |-> 0, isRegex |-> TRUE], start |-> ROOT],
          [query |-> <<"(">>, options |-> [includeNotes |-> FALSE, limit |-> 0, isRegex |-> TRUE], start |-> "z"]}

\* Searches, and the answers of the remote store to the full syncs their getTree starts.
NextSearch ==
    \/ \E x \in SearchArgs : Search(x.query, x.options, x.start)
    \/ \E s \in 1..MaxCalls, p \in Parents : FetchRespond(s, p)
    \/ \E s \in 1..MaxCalls, p \in Parents : FetchFail(s, p)

SpecSearch == InitIdle /\ [][NextSearch]_vars

\* A cold engine over a persisted record that no sync wrote.
InitRecord ==
    /\ now = StartTime
    /\ inMemoryTree = Null
    /\ lastSyncedAt = 0
    /\ disk \in {Unparseable, RootNotAList, NoSyncedAt}
    /\ syncInProgress = 0
    /\ syncs = Null
    /\ calls = Null
    /\ returned = {}
    /\ issued = 0
    /\ nodeCache = Null
    /\ remote = RemoteTree
    /\ names = PlainNames
    /\ currentNodeId = ROOT
    /\ currentPath = <<ROOT>>

SpecRecord == InitRecord /\ [][NextEngine]_vars

\* The jumps tried: a top-level node, a nested one and an id the outline lacks, without a
\* path hint, with the bookmark's path and with an outdated one.
JumpArgs ==
    {[node |-> n, hint |-> h] : n \in {"a", "c", "z"}, h \in {<<>>, <<"/", "P", "r", "o", "/", "x">>, <<"/", "q">>}}

\* A session after init(), somewhere in the outline, over an engine that holds no mirror yet,
\* the mirror of an earlier outline, or the current one.
InitJump ==
    /\ now = StartTime
    /\ \/ inMemoryTree = Null /\ lastSyncedAt = 0 /\ disk = NoRecord
       \/ \E t \in {OldTree, RemoteTree} :
             inMemoryTree = t /\ lastSyncedAt = StartTime /\ disk = Record(StartTime, t)
    /\ syncInProgress = 0
    /\ syncs = Null
    /\ calls = Null
    /\ returned = {}
    /\ issued = 0
    /\ nodeCache = Null
    /\ remote = RemoteTree
    /\ names = PlainNames
    /\ currentPath \in Locations
    /\ currentNodeId = currentPath[Len(currentPath)]

\* The continuation of a jump after its forced sync runs before any other event is taken.
NextJump ==
    \/ \E i \in 1..MaxCalls : JumpContinue(i)
    \/ ~JumpPending /\ \E x \in JumpArgs : JumpToNodeId(x.node, x.hint)
    \/ ~JumpPending /\ \E i \in 1..MaxCalls : JumpNavRespond(i)
    \/ ~JumpPending /\ \E i \in 1..MaxCalls : JumpNavFail(i)
    \/ ~JumpPending /\ \E s \in 1..MaxCalls, p \in Parents : FetchRespond(s, p)
    \/ ~JumpPending /\ \E s \in 1..MaxCalls, p \in Parents : FetchFail(s, p)

SpecJump == InitJump /\ [][NextJump]_vars

\* The calls are issued while the clock bound still covers the timer of a sync they start.
TimerCovered == now + SYNC_TIMEOUT_MS <= MaxTime

\* The engine under reads and forced syncs, with the timers of the runs it starts.
NextBackground ==
    \/ TimerCovered /\ GetTree(FALSE)
    \/ TimerCovered /\ ForceSync
    \/ \E s \in 1..MaxCalls, p \in Parents : FetchRespond(s, p)
    \/ \E s \in 1..MaxCalls, p \in Parents : FetchFail(s, p)
    \/ \E s \in 1..MaxCalls : SyncTimeout(s)
    \/ \E s \in 1..MaxCalls : TimerExpire(s)
    \/ Tick

\* Time passes and a timer whose deadline is reached fires; the remote store may never answer.
SpecBackground ==
    /\ Init
    /\ [][NextBackground]_vars
    /\ WF_vars(Tick)
    /\ \A s \in 1..MaxCalls : WF_vars(SyncTimeout(s)) /\ WF_vars(TimerExpire(s))

\* The paths changeDirectory is tried on next to the direct mutators: through the parent, at
\* and above the root, by name, absolute, and one that fails part-way.
StatePaths ==
    {<<".", ".">>, <<".", ".", "/", ".", ".">>, <<"a">>, <<"/", "a", "/", "c">>, <<"a", "/", "z">>, <<"~">>}

\* The paths setPath is given: none, the root alone, a nested one, and one that does not start
\* at the root.
SetPathArgs == {<<>>, <<ROOT>>, <<ROOT, "a", "c">>, <<"b">>}

\* A session after load(), at the root, over an engine that holds the mirror of the outline.
InitState ==
    /\ now = StartTime
    /\ inMemoryTree = RemoteTree /\ lastSyncedAt = StartTime /\ disk = Record(StartTime, RemoteTree)
    /\ syncInProgress = 0
    /\ syncs = Null
    /\ calls = Null
    /\ returned = {}
    /\ issued = 0
    /\ nodeCache = Null
    /\ remote = RemoteTree
    /\ names = PlainNames
    /\ currentNodeId = ROOT
    /\ currentPath = <<ROOT>>

\* The session driven through SessionState's mutators and changeDirectory, one call at a time.
NextState ==
    \/ \E node \in Ids : SetNode(node)
    \/ \E path \in SetPathArgs : SetPath(path)
    \/ PopPathCall
    \/ ResetToRoot
    \/ \E arg \in StatePaths : ChangeDirectory(arg)

SpecState == InitState /\ [][NextState]_vars

----------------------------------------------------------------------------
(* Claims *)

Racing == {s \in DOMAIN syncs : syncs[s].race = "pending"}

\* Run s of syncBlocking settles in this step, with the given end of its race.
Settles(s, how) == s \in Racing /\ s \in DOMAIN syncs' /\ syncs'[s].race = how

\* C1: at any moment at most one full-tree fetch is in flight; a trigger that arrives while a
\* full sync runs joins it instead of starting a fetch sequence of its own.
C1_AtMostOneFullFetch == Cardinality(Racing) <= 1

\* C2: a full sync never shows its readers anything but the complete old or the complete new
\* mirror.  Every step of a running full sync leaves the mirror, syncedAt and the persisted
\* record as they are, except the step that completes the fetch, which swaps in the whole
\* remote tree; a sync that fails or times out changes none of them.  The mirror is only ever
\* kept, hydrated from the persisted record or replaced by the whole remote tree, and the tree a
\* getTree returns is a complete one.
C2_ReadersSeeOldOrNewMirror ==
    [][/\ inMemoryTree' \in {inMemoryTree, LoadedTree, RemoteTree}
       /\ \A r \in returned' : r.op = "getTree" => r.tree \in {Null, OldTree, RemoteTree}
       /\ \A s \in DOMAIN syncs :
             (s \notin DOMAIN syncs' \/ syncs'[s] # syncs[s]) =>
                IF Settles(s, "ok")
                THEN inMemoryTree' = RemoteTree
                ELSE UNCHANGED <<inMemoryTree, lastSyncedAt, disk>>]_vars

\* A getTree returns the old mirror while a full fetch holds part of the new tree.
C2_Witness ==
    \E r \in returned, s \in Racing :
        /\ r.op = "getTree" /\ r.tree = OldTree /\ inMemoryTree = OldTree
        /\ syncs[s].got # Null /\ syncs[s].pending # {}

\* C3: getTree(false) with a mirror available (resident or loadable from the persisted record)
\* returns that mirror without waiting for a remote call, whatever its age; it is flagged stale
\* exactly when its age exceeds the TTL, and then a background sync is in flight.
C3_StaleWhileRevalidate ==
    \A r \in returned :
        (r.op = "getTree" /\ ~r.force /\ r.hadMirror) =>
            /\ ~r.waited
            /\ r.outcome = "tree" /\ r.tree = inMemoryTree /\ r.tree # Null
            /\ r.stale = (now - lastSyncedAt > CACHE_TTL_MS)
            /\ r.stale => /\ syncInProgress \in Racing
                          /\ syncs[syncInProgress].kind = "bg"
                          /\ r.syncingInBackground

\* A getTree hydrates a stale record, returns it at once and starts the background sync.
C3_Witness ==
    \E r \in returned :
        /\ r.op = "getTree" /\ ~r.force /\ ~r.resident /\ r.hadMirror
        /\ r.stale /\ r.triggered /\ r.tree = OldTree


\* C4: with a resident mirror older than the TTL, getChildren(root) returns at once and has a
\* background sync in flight when it returns (which, once complete, advances syncedAt).
C4_GetChildrenRevalidates ==
    \A r \in returned :
        (r.op = "getChildren" /\ r.node = ROOT /\ ~r.force /\ r.resident
            /\ now - lastSyncedAt > CACHE_TTL_MS) =>
            (~r.waited /\ syncInProgress \in Racing)

C6_ForceSyncAlwaysAdvances ==
    \A r \in returned :
        (r.op = "forceSync" /\ r.outcome = "tree" /\ r.cause # "remote") =>
            /\ lastSyncedAt > r.preSyncedAt
            /\ r.tree = inMemoryTree
            /\ disk = Record(lastSyncedAt, r.tree)

\* C6 as amended: a forceSync whose full sync (its own, or the background sync it joined)
\* completes has syncedAt set to the completion time, not earlier than before; the tree
\* returned is the resident mirror and the persisted record holds that tree and syncedAt.
C6_CompletedForceSyncAdvances ==
    \A r \in returned :
        (r.op = "forceSync" /\ r.cause = "ok") =>
            /\ r.outcome = "tree"
            /\ lastSyncedAt = now /\ lastSyncedAt >= r.preSyncedAt
            /\ r.tree = inMemoryTree /\ r.tree = RemoteTree
            /\ disk = Record(lastSyncedAt, r.tree)

\* A forceSync over a hydrated mirror completes a minute after it began.
C6_Witness ==
    \E r \in returned :
        /\ r.op = "forceSync" /\ r.cause = "ok" /\ r.resident /\ ~r.joined
        /\ r.since < now /\ lastSyncedAt > r.preSyncedAt

\* C7: a remote failure during a foreground blocking sync (forceSync, getTree(true)) reaches
\* the caller as an error, with or without a resident mirror or a running background sync.
C7_ForegroundFailureSurfaces ==
    \A r \in returned :
        ((r.op = "forceSync" \/ (r.op = "getTree" /\ r.force)) /\ r.cause = "remote") =>
            (r.outcome = "error" /\ r.err = "remote")

\* C8: when the 60 second timer ends a full sync, the mirror, syncedAt and the persisted
\* record stay as they are and every caller waiting on that sync gets the resident mirror, or
\* the timeout error when no mirror is resident.
C8_TimeoutFallsBackToMirror ==
    [][\A s \in DOMAIN syncs :
          Settles(s, "timeout") =>
             /\ now >= syncs[s].start + SYNC_TIMEOUT_MS
             /\ UNCHANGED <<inMemoryTree, lastSyncedAt, disk>>
             /\ Awaiting(s) \cap DOMAIN calls' = {}
             /\ Awaiting(s) # {} => returned' # {}
             /\ \A r \in returned' :
                   /\ r.cause = "timeout"
                   /\ IF inMemoryTree # Null
                      THEN r.outcome = "tree" /\ r.tree = inMemoryTree
                      ELSE r.outcome = "error" /\ r.err = "timeout"]_vars

\* A forceSync over a resident mirror timed out and got the old mirror back.
C8_Witness ==
    \E r \in returned :
        /\ r.op = "forceSync" /\ r.cause = "timeout" /\ ~r.joined
        /\ r.outcome = "tree" /\ r.tree = OldTree /\ now >= r.since + SYNC_TIMEOUT_MS

\* C9: a background sync that fails (remote error or timeout) raises no error to anyone.  The
\* getTree that triggered it is not waiting for it, the callers that joined it get the
\* resident mirror, the in-flight marker is cleared, and the mirror, syncedAt and persisted
\* record are untouched.
C9_BackgroundFailureSwallowed ==
    [][\A s \in DOMAIN syncs :
          (syncs[s].kind = "bg" /\ (Settles(s, "error") \/ Settles(s, "timeout"))) =>
             /\ UNCHANGED <<inMemoryTree, lastSyncedAt, disk>>
             /\ s \notin DOMAIN calls
             /\ syncInProgress = s /\ syncInProgress' = 0
             /\ \A r \in returned' : r.joined /\ r.outcome = "tree" /\ r.tree = inMemoryTree]_vars

\* The remote store failed a background sync that a forceSync had joined.
C9_Witness ==
    \E r \in returned :
        /\ r.op = "forceSync" /\ r.joined /\ r.cause = "remote" /\ r.outcome = "tree"
        /\ syncInProgress = 0 /\ inMemoryTree = OldTree

\* C10: no call waits beyond the timeout.  A call that has been suspended for 60 seconds is
\* waiting on a sync whose timer is due and releases it.
C10_EveryWaitIsTimerGuarded ==
    \A i \in DOMAIN calls :
        now - calls[i].since >= SYNC_TIMEOUT_MS =>
            /\ calls[i].pc = "awaitSync"
            /\ calls[i].awaits \in Racing
            /\ syncs[calls[i].awaits].timer = "armed"


\* C11: every completed full sync leaves the same mirror, whatever the order in which the
\* answers to its per-node requests arrived: while the remote outline is not mutated, a mirror
\* stamped by a full sync is the remote outline, node for node and list for list, and so is
\* the persisted record.
C11_FullSyncIdempotent ==
    lastSyncedAt >= StartTime =>
        /\ inMemoryTree = RemoteTree
        /\ disk = Record(lastSyncedAt, RemoteTree)
        /\ \A r \in returned : r.cause = "ok" => r.tree = inMemoryTree

\* A second full sync completes over the mirror that an earlier full sync left.
C11_Witness ==
    \E r \in returned :
        /\ r.op = "forceSync" /\ r.cause = "ok" /\ ~r.joined
        /\ r.resident /\ r.preSyncedAt >= StartTime
        /\ inMemoryTree = RemoteTree


\* The mirror is resident and holds the node, or the node is the root.
Locatable(node) == inMemoryTree # Null /\ (node = ROOT \/ FindNodeById(inMemoryTree, node))

\* C12: an unforced getChildren answers from the per-parent cache when it has an entry for the
\* node, else from the mirror when the node is locatable there or is the root, and calls the
\* remote store only otherwise; the first two make no remote call, and a remote result is
\* inserted into the per-parent cache under the node.
C12_ChildrenResolutionOrder ==
    [][/\ \A r \in returned' :
             (r.op = "getChildren" /\ ~r.force /\ ~r.waited) =>
                /\ calls' = calls
                /\ IF r.node \in DOMAIN nodeCache
                   THEN r.list = nodeCache[r.node] /\ nodeCache' = nodeCache
                   ELSE Locatable(r.node) /\ r.list = inMemoryTree[r.node]
       /\ \A i \in DOMAIN calls' \ DOMAIN calls :
             (calls'[i].op = "getChildren" /\ ~calls'[i].force) =>
                (calls'[i].node \notin DOMAIN nodeCache /\ ~Locatable(calls'[i].node))
       /\ \A r \in returned' :
             (r.op = "getChildren" /\ r.waited /\ r.outcome = "list") =>
                (r.node \in DOMAIN nodeCache' /\ nodeCache'[r.node] = r.list)]_vars

\* An unforced getChildren finds no cache entry for its node and answers from the hydrated mirror.
C12_Witness ==
    \E r \in returned :
        /\ r.op = "getChildren" /\ ~r.force /\ ~r.waited /\ r.node = "a"
        /\ inMemoryTree = OldTree /\ r.list = inMemoryTree["a"]
        /\ nodeCache = ("a" :> r.list)


SortedByK(s) == \A i, j \in DOMAIN s : i < j => K(s[i]) <= K(s[j])

\* C13: every children list of the mirror and every list of the per-parent cache is sorted
\* ascending by the order key, whatever order the remote store answered in.
C13_ListsSortedByOrder ==
    /\ \A p \in DOMAIN inMemoryTree : SortedByK(inMemoryTree[p])
    /\ \A p \in DOMAIN nodeCache : SortedByK(nodeCache[p])


\* C14: when the remote call of a mutation fails, the caller gets that error and the call has
\* changed neither the per-parent cache nor the mirror (nor the persisted record).
C14_FailedMutationChangesNothing ==
    [][\A i \in DOMAIN calls :
          (calls[i].op \in MutationOps /\ i \notin DOMAIN calls'
              /\ \E r \in returned' : r.op = calls[i].op /\ r.outcome = "error") =>
             /\ \A r \in returned' : r.err = "remote" /\ r.cause = "remote"
             /\ UNCHANGED <<nodeCache, inMemoryTree, lastSyncedAt, disk>>]_vars

\* A deleteNode fails while the per-parent cache and the mirror are filled; both are kept.
C14_Witness ==
    \E r \in returned :
        /\ r.op = "deleteNode" /\ r.outcome = "error"
        /\ nodeCache # Null /\ inMemoryTree = RemoteTree

\* C15: after a successful moveNode of c from a to b, with c, a and b in the mirror, an
\* unforced getChildren answers without a remote fetch and lists c under b and not under a.
C15_MoveVisibleBeforeSync ==
    \A r \in returned :
        (/\ r.op = "getChildren" /\ ~r.force /\ r.node \in {"a", "b"}
         /\ "c" \in Range(RemoteChildren("b"))
         /\ inMemoryTree # Null /\ {"a", "b", "c"} \subseteq Reach(inMemoryTree, ROOT)) =>
            (~r.waited /\ (("c" \in Range(r.list)) <=> (r.node = "b")))

\* C16: getNode returns in the turn it is called, without a request to the remote store and
\* without hydrating or changing the mirror, the caches or the persisted record; it finds the
\* node exactly when the resident mirror holds the id.
C16_GetNodeMirrorOnly ==
    [][\A r \in returned' :
          r.op = "getNode" =>
             /\ ~r.waited /\ calls' = calls /\ syncs' = syncs
             /\ UNCHANGED <<inMemoryTree, lastSyncedAt, disk, nodeCache, remote>>
             /\ (r.outcome = "node") <=> (r.node \in (Reach(inMemoryTree, ROOT) \ {ROOT}))
             /\ r.outcome \in {"node", "notFound"}]_vars

\* getNode finds a nested node in the resident mirror.
C16_Witness ==
    \E r \in returned :
        r.op = "getNode" /\ r.node = "c" /\ r.outcome = "node" /\ inMemoryTree = RemoteTree

\* What resolvePath answers to a path from a location, and where walkAndChange ends on it,
\* when the remote store answers every list that is asked of it.
ResolvedFrom(pathStr, id, path) ==
    Advance(StartResolve(NewCall("resolvePath", id, FALSE, <<>>), pathStr, id, path),
            Everywhere, id, path).c

WalkedFrom(pathStr, id, path) ==
    WalkAndChange(NewCall("walkAndChange", id, FALSE, <<>>), pathStr, Everywhere, id, path)

\* C17: resolvePath("/") returns the root node from every current location and breadcrumb
\* stack, and resolvePath("..") evaluated at the root returns the root: as a function of the
\* session's location, and in every answer a resolvePath invocation returned.
C17_SlashAndDotDotAtRoot ==
    /\ ResolvedFrom(<<"/">>, currentNodeId, currentPath).currentNode = ROOT
    /\ currentPath = <<ROOT>> => ResolvedFrom(DotDot, currentNodeId, currentPath).currentNode = ROOT
    /\ \A r \in returned :
          /\ r.op = "resolvePath" /\ r.arg = <<"/">> => r.outcome = "node" /\ r.currentNode = ROOT
          /\ r.op = "resolvePath" /\ r.arg = DotDot /\ r.startPath = <<ROOT>>
                => r.outcome = "node" /\ r.currentNode = ROOT

\* resolvePath("/") answered two levels below the root, after a changeDirectory got there.
C17_Witness ==
    \E r \in returned :
       /\ r.op = "resolvePath" /\ r.arg = <<"/">> /\ r.currentNode = ROOT
       /\ Len(r.startPath) = 3 /\ issued = 2

\* C18: for every path P and every starting location, when the children lists do not change
\* in between, resolvePath(P) returns a node exactly when walking P one segment at a time
\* (walkAndChange) succeeds, and the id of the returned node is the current node id the walk
\* ends on; a changeDirectory that ran alone therefore ends on the node it resolved.
C18_ResolveAgreesWithWalk ==
    /\ \A pathStr \in Paths :
          LET r == ResolvedFrom(pathStr, currentNodeId, currentPath)
              w == WalkedFrom(pathStr, currentNodeId, currentPath)
          IN /\ r.outcome = "node" <=> w.c.outcome = "done"
             /\ r.outcome = "node" => r.currentNode = w.id /\ w.path[Len(w.path)] = w.id
    /\ \A r \in returned :
          r.op = "changeDirectory" =>
             /\ r.err # "segment"
             /\ r.outcome = "done" => currentNodeId = r.currentNode

\* A changeDirectory over three segments, one of them '..', started below the root, ended
\* on the node it had resolved.
C18_Witness ==
    \E r \in returned :
       /\ r.op = "changeDirectory" /\ r.outcome = "done"
       /\ Len(Segments(r.arg)) = 3 /\ DotDot \in Range(Segments(r.arg))
       /\ Len(r.startPath) > 1
       /\ currentNodeId = r.currentNode /\ currentNodeId # ROOT

\* The one-level lookup as it is specified: the index strategy applies to a segment that is an
\* integer, then the unique exact name, the id, the unique case-insensitive prefix.
SpecifiedOneLevel(children, arg) ==
    LET index == ParseIntStrict(arg)
        exact == {i \in DOMAIN children : Name(children[i]) = arg}
        byId == {i \in DOMAIN children : IdString(children[i]) = arg}
        prefix == {i \in DOMAIN children : StartsWith(ToLowerCase(Name(children[i])), ToLowerCase(arg))}
    IN IF index # NaN /\ index >= 1 /\ index <= Len(children) THEN children[index]
       ELSE IF Cardinality(exact) = 1 THEN children[CHOOSE i \in exact : TRUE]
       ELSE IF byId # {} THEN children[CHOOSE i \in byId : TRUE]
       ELSE IF Cardinality(prefix) = 1 THEN children[CHOOSE i \in prefix : TRUE]
       ELSE NotFound

\* C19: resolveOneLevel tries, in this order, the 1-based index, the exact name (only if
\* exactly one child has it), the id, and the case-insensitive name prefix (only if exactly one
\* child matches), returns the hit of the first strategy that succeeds and not-found when none
\* yields a unique child: every single-segment resolvePath answers what that order gives.
C19_StrategyOrder ==
    \A r \in returned :
       r.op = "resolvePath" /\ Segments(r.arg) = <<r.arg>> /\ r.arg \notin {DotDot, <<"~">>}
          => r.currentNode = SpecifiedOneLevel(ChildrenOf(r.startId), r.arg)

\* C20: changeDirectory(P) either moves the session to the node P resolves to, or fails and
\* leaves the current node id and the breadcrumb stack exactly as they were before the call; it
\* never stops part-way along P, also when other operations interleave with it.  Stated on the
\* failures of its walk: a changeDirectory that fails after its walk has applied segments of P
\* leaves the session where the call found it.
C20_NoPartialNavigation ==
    \A r \in returned :
       r.op = "changeDirectory" /\ r.outcome = "error" /\ r.phase = "walk" /\ r.seg > 1
          => currentNodeId = r.startId /\ currentPath = r.startPath

RECURSIVE PreOrder(_, _)
\* The nodes below a list of siblings, depth first, each node before its children.
PreOrder(t, nodes) ==
    IF nodes = <<>> THEN <<>>
    ELSE <<Head(nodes)>>
         \o (IF Head(nodes) \in DOMAIN t THEN PreOrder(t, t[Head(nodes)]) ELSE <<>>)
         \o PreOrder(t, Tail(nodes))

\* The nodes in the scope of a returned search, in pre-order, and those of them that match.
Scope(r) ==
    IF r.mirror = Null THEN <<>>
    ELSE IF r.node = ROOT THEN PreOrder(r.mirror, r.mirror[ROOT])
    ELSE IF FindNodeById(r.mirror, r.node) THEN PreOrder(r.mirror, <<r.node>>)
    ELSE <<>>

Hits(r) == SelectSeq(Scope(r), LAMBDA id : MatchOf(id, ToLowerCase(r.query), r.options).hit)

ResultNodes(r) == [i \in DOMAIN r.results |-> r.results[i].node]

Searched(r) == r.op = "search" /\ r.outcome = "results"

\* C21: search with limit = N (N >= 1) returns exactly min(N, number of matches in scope)
\* results, they are the first matches in depth-first pre-order, and no node is examined after
\* the N-th match is collected.
C21_LimitTakesFirstMatches ==
    \A r \in returned :
       Searched(r) /\ r.options.limit >= 1 =>
          LET n == IF Len(Hits(r)) < r.options.limit THEN Len(Hits(r)) ELSE r.options.limit
          IN /\ ResultNodes(r) = SubSeq(Hits(r), 1, n)
             /\ r.examined = SubSeq(Scope(r), 1, Len(r.examined))
             /\ Len(Hits(r)) >= r.options.limit => r.examined[Len(r.examined)] = Hits(r)[n]
             /\ Len(Hits(r)) < r.options.limit => r.examined = Scope(r)

\* A search with limit 2 over three matches returned the first two and never looked at the
\* third node.
C21_Witness ==
    \E r \in returned :
       /\ Searched(r) /\ r.options.limit = 2 /\ Len(Hits(r)) = 3
       /\ Len(r.results) = 2 /\ Len(r.examined) = 2 /\ Len(Scope(r)) = 3

\* C22: for a search scoped to startNodeId, each result's path is the chain of ancestors from
\* the start node down to the match's parent: it excludes the match itself and excludes every
\* ancestor above the start node.
C22_PathFromStartNode ==
    \A r \in returned :
       Searched(r) /\ r.node # ROOT =>
          \A i \in DOMAIN r.results :
             LET res == r.results[i]
             IN /\ res.node \notin Range(res.path)
                /\ \A x \in Range(res.path) : x \in Reach(r.mirror, r.node)
                /\ res.node # r.node => res.path # <<>> /\ res.path[1] = r.node
                /\ res.node = r.node => res.path = <<>>

NameHas(id, query) == Includes(ToLowerCase(Name(id)), ToLowerCase(query))

NoteHas(id, query) == Includes(ToLowerCase(Note(id)), ToLowerCase(query))

\* C23: in substring mode a node is a search result exactly when its name contains the query
\* ignoring case or, with includeNotes set, its note does; matchField is name whenever the name
\* matches (also when the note matches too) and note only when the note alone matches; without
\* includeNotes a node whose note alone matches is not a result.  Stated on the searches
\* without a limit, whose results are all the matches of the scope.
C23_SubstringMatchAndField ==
    \A r \in returned :
       Searched(r) /\ ~r.options.isRegex /\ r.options.limit = 0 =>
          /\ \A id \in Range(Scope(r)) :
                id \in Range(ResultNodes(r)) <=>
                   NameHas(id, r.query) \/ (r.options.includeNotes /\ NoteHas(id, r.query))
          /\ Range(ResultNodes(r)) \subseteq Range(Scope(r))
          /\ \A i \in DOMAIN r.results :
                r.results[i].matchField = IF NameHas(r.results[i].node, r.query) THEN "name" ELSE "note"

\* One search with includeNotes returned a node matched by name and note as a name match and a
\* node matched by its note alone as a note match.
C23_Witness ==
    \E r \in returned :
       /\ Searched(r) /\ r.options.includeNotes /\ r.options.limit = 0
       /\ \E i, j \in DOMAIN r.results :
             /\ r.results[i].matchField = "name"
             /\ NameHas(r.results[i].node, r.query) /\ NoteHas(r.results[i].node, r.query)
             /\ r.results[j].matchField = "note" /\ ~NameHas(r.results[j].node, r.query)

\* C24: search with isRegex set and a query that is not a valid pattern always fails with an
\* invalid-query error, for every mirror state (resident, empty, absent) and every startNodeId
\* (present in the mirror or not); it never returns an empty result list instead.
C24_InvalidRegexAlwaysFails ==
    \A r \in returned :
       r.op = "search" /\ r.options.isRegex /\ ~ValidPattern(r.query)
          => r.outcome = "error" /\ r.err = "invalidQuery"

\* C25: search never waits on the network: it is answered from whatever mirror is resident at
\* the time of the call, also when no mirror is resident (cold cache) or the mirror is stale.
C25_SearchNeverWaits ==
    \A r \in returned :
       r.op = "search" => ~r.waited /\ (r.outcome = "results" => r.mirror = r.tree)

\* C28: a persisted record that is unreadable or malformed (not parseable, root not a list, or
\* syncedAt missing or not a number) is treated as absent: hydration reports no mirror without
\* raising an error, isStale is true, and the next getTree performs a blocking full sync.
\* Stated on the first call made over such a record.
C28_MalformedRecordIsAbsent ==
    issued = 1 =>
       /\ \A r \in returned : ~r.hadMirror /\ r.waited /\ r.tree \in {Null, RemoteTree}
       /\ \A i \in DOMAIN calls : ~calls[i].hadMirror /\ calls[i].pc = "awaitSync"

\* The number of times x occurs in the list s.
Occurrences(s, x) == Cardinality({i \in DOMAIN s : s[i] = x})

\* C26: syncSubtree(nodeId, pathContext) on a mirror that does not contain nodeId, with a
\* rooted pathContext that ends at nodeId, creates one placeholder node for each pathContext
\* segment missing from the mirror (reusing, not duplicating, the segments already present),
\* attaches the fetched subtree as the children of nodeId, and performs no full sync.
C26_SkeletonGraft ==
    [][\A r \in returned' :
          (/\ r.op = "syncSubtree" /\ r.outcome = "list"
           /\ r.ctx # <<>> /\ r.ctx[1] = ROOT /\ r.ctx[Len(r.ctx)] = r.node
           /\ ~FindNodeById(inMemoryTree, r.node))
          => LET old == IF inMemoryTree = Null THEN EmptyTree ELSE inMemoryTree
                 new == inMemoryTree'
             IN /\ r.awaits = 0
                /\ \A k \in 2..Len(r.ctx) :
                      /\ r.ctx[k - 1] \in DOMAIN new
                      /\ Occurrences(new[r.ctx[k - 1]], r.ctx[k]) = 1
                /\ \A q \in DOMAIN old :
                      /\ q \in DOMAIN new
                      /\ SubSeq(new[q], 1, Len(old[q])) = old[q]
                      /\ Range(new[q]) \ Range(old[q]) \subseteq
                            {r.ctx[k] : k \in {j \in 2..Len(r.ctx) : r.ctx[j - 1] = q}}
                /\ DOMAIN new = DOMAIN old \cup Range(r.ctx) \cup Reach(remote, r.node)
                /\ \A x \in Reach(remote, r.node) : new[x] = remote[x]
                /\ r.list = remote[r.node]]_vars

\* A skeleton graft of c under the a that the mirror already holds: a is reused, c is new.
C26_Witness ==
    \E r \in returned :
       /\ r.op = "syncSubtree" /\ r.outcome = "list" /\ r.ctx = <<ROOT, "a", "c">> /\ r.awaits = 0
       /\ r.hadMirror
       /\ inMemoryTree = (ROOT :> <<"a">>) @@ ("a" :> <<"c">>) @@ ("c" :> <<>>)

C29_JumpLandsOnNode ==
    \A r \in returned :
       (r.op = "jumpToNodeId" /\ r.outcome = "done")
          => currentNodeId = r.jumpId /\ currentPath = PathTo(r.jumpId)

\* The background runs whose race is undecided.
BackgroundInFlight == {s \in DOMAIN syncs : syncs[s].kind = "bg" /\ syncs[s].race = "pending"}

\* C30: a forceSync or getTree(forceRefresh=true) issued while a background sync is in flight
\* starts no new remote fetch and resolves to the result of that background sync: it waits
\* for that run, returns in the step in which the run settles, with the fetched tree when the
\* run succeeded and with the run's fallback (the mirror, or an empty list) when it failed.
C30_ForcedCallJoinsBackground ==
    [][/\ \A i \in DOMAIN calls' \ DOMAIN calls :
             (calls'[i].force /\ calls'[i].op \in {"forceSync", "getTree"} /\ BackgroundInFlight # {})
                => /\ syncs' = syncs
                   /\ calls'[i].pc = "awaitSync"
                   /\ calls'[i].awaits \in BackgroundInFlight
       /\ \A i \in DOMAIN calls :
             (calls[i].force /\ calls[i].op \in {"forceSync", "getTree"}
                /\ calls[i].awaits \in DOMAIN syncs /\ syncs[calls[i].awaits].kind = "bg")
                => LET s == calls[i].awaits
                       settled == s \notin DOMAIN syncs' \/ syncs'[s].race # "pending"
                   IN IF ~settled THEN i \in DOMAIN calls' /\ calls'[i] = calls[i]
                      ELSE \E r \in returned' :
                              /\ r.op = calls[i].op /\ r.awaits = s /\ r.since = calls[i].since
                              /\ r.outcome = "tree"
                              /\ r.tree = IF inMemoryTree' # inMemoryTree \/ lastSyncedAt' # lastSyncedAt
                                          THEN inMemoryTree'
                                          ELSE IF inMemoryTree # Null THEN inMemoryTree ELSE EmptyTree]_vars

\* A forceSync that found a background run in flight came back with the tree that run fetched.
C30_Witness ==
    \E r \in returned :
       /\ r.op = "forceSync" /\ r.joined /\ r.awaits # 0 /\ r.cause = "ok"
       /\ r.tree = RemoteTree /\ inMemoryTree = RemoteTree /\ BackgroundInFlight = {}

\* C31: every background sync eventually ends, by success, by remote failure or by the
\* 60-second timeout; when it ends the in-flight marker is cleared (so that a later stale
\* getTree can trigger a new background sync), and when it ends by success the mirror has been
\* replaced by the fetched outline and syncedAt is the completion time, which is not before
\* the sync's start and so more than the TTL after the syncedAt the sync was started on.
C31_BackgroundSyncEnds ==
    /\ [][/\ \A s \in DOMAIN syncs' \ DOMAIN syncs :
                 syncs'[s].kind = "bg" => syncInProgress' = s /\ syncs'[s].start - lastSyncedAt' > CACHE_TTL_MS
          /\ \A s \in BackgroundInFlight :
                 /\ syncInProgress = s
                 /\ (s \in DOMAIN syncs' /\ syncs'[s].race # "pending")
                      => /\ syncInProgress' = 0
                         /\ syncs'[s].race \in {"ok", "error", "timeout"}
                         /\ syncs'[s].race = "timeout" => now >= syncs[s].start + SYNC_TIMEOUT_MS
                         /\ syncs'[s].race = "ok"
                              => /\ inMemoryTree' = remote /\ disk' = Record(now, remote)
                                 /\ lastSyncedAt' = now /\ lastSyncedAt' >= syncs[s].start]_vars
    /\ \A s \in 1..MaxCalls : (s \in BackgroundInFlight) ~> (s \notin BackgroundInFlight)

\* A background sync ended by remote failure, and the stale getTree that came next started a
\* new one.
C31_Witness ==
    /\ \E r \in returned : r.op = "getTree" /\ r.triggered /\ r.stale /\ syncInProgress = issued
    /\ issued = 2
    /\ BackgroundInFlight = {2}
    /\ 1 \notin DOMAIN syncs \/ syncs[1].race = "error"

\* The runs that timed out and whose fetch is still running.
TimedOutRunning == {s \in DOMAIN syncs : syncs[s].race = "timeout" /\ syncs[s].pending # {}}

\* C32: after a full sync has timed out, the answers to its still-running fetch and its
\* completion change nothing: the mirror, syncedAt, the persisted record and the in-flight
\* marker stay as they are, no caller is resumed and no other run is touched, also when another
\* sync has started in the meantime.
C32_LateCompletionIsDiscarded ==
    [][\A s \in TimedOutRunning :
          (s \notin DOMAIN syncs' \/ syncs'[s] # syncs[s])
             => /\ UNCHANGED <<inMemoryTree, lastSyncedAt, disk, syncInProgress, calls, nodeCache>>
                /\ returned' = {}
                /\ \A t \in DOMAIN syncs \ {s} : t \in DOMAIN syncs' /\ syncs'[t] = syncs[t]
                /\ s \in DOMAIN syncs' => syncs'[s].race = "timeout" /\ syncs'[s].pending # syncs[s].pending]_vars

\* A run that timed out has all but the last request of its fetch answered, while a sync that
\* started after the timeout is racing.
C32_Witness ==
    \E s \in TimedOutRunning, t \in Racing :
       /\ syncs[s].pending = {"c"}
       /\ syncs[t].start >= syncs[s].start + SYNC_TIMEOUT_MS

\* C33: a successful syncSubtree(nodeId) whose node is present in the mirror replaces only that
\* node's children with the freshly fetched subtree: every list outside the node's subtree
\* (its parent's list with the node's id and position in it included) is unchanged, syncedAt
\* is unchanged, and the persisted record equals the grafted mirror; with no other operation
\* interleaved (it is the only call so far) the lists of the node and its descendants are
\* the remote store's.
C33_GraftReplacesOnlySubtree ==
    [][\A r \in returned' :
          (/\ r.op = "syncSubtree" /\ r.outcome = "list" /\ r.awaits = 0
           /\ FindNodeById(inMemoryTree, r.node))
          => LET old == inMemoryTree
                 new == inMemoryTree'
             IN /\ \A q \in DOMAIN old \ Reach(old, r.node) : q \in DOMAIN new /\ new[q] = old[q]
                /\ DOMAIN new \subseteq (DOMAIN old \ Reach(old, r.node)) \cup Reach(new, r.node)
                /\ new[r.node] = r.list
                /\ lastSyncedAt' = lastSyncedAt
                /\ disk' = Record(lastSyncedAt, new)
                /\ issued = 1 => \A x \in Reach(remote, r.node) : x \in DOMAIN new /\ new[x] = remote[x]]_vars

\* syncSubtree(a), the only call so far, returned on the hydrated old mirror: a's children are
\* the fetched ones, the root's list is the old one, and the record holds the grafted tree.
C33_Witness ==
    /\ issued = 1
    /\ \E r \in returned : r.op = "syncSubtree" /\ r.node = "a" /\ r.outcome = "list" /\ r.hadMirror /\ r.list = <<"c">>
    /\ inMemoryTree = (ROOT :> <<"a">>) @@ ("a" :> <<"c">>) @@ ("c" :> <<>>)
    /\ disk.root = inMemoryTree

\* C34: the per-parent cache never serves a list that differs from the current mirror: once a
\* full sync of this run has succeeded, an unforced getChildren(id) for an id present in the
\* mirror answers with the children the mirror records for id (compared as sets, so that the
\* order the lists are kept in plays no part).
C34_CacheServesCurrentMirror ==
    (inMemoryTree # Null /\ lastSyncedAt >= StartTime)
       => \A id \in DOMAIN inMemoryTree :
             (id = ROOT \/ FindNodeById(inMemoryTree, id))
                => Range(ChildrenOf(id)) = Range(inMemoryTree[id])

\* C35: if the remote fetch of a syncSubtree fails, the error is raised to the caller and the
\* mirror, syncedAt and the persisted record are as before the call: for the only call so far,
\* a cache that was cold (no mirror, no record) is still cold, and one that had a record holds
\* that record's tree and syncedAt.
C35_FailedSubtreeFetchLeavesNoTrace ==
    \A r \in returned :
       (r.op = "syncSubtree" /\ r.outcome = "error" /\ r.awaits = 0 /\ issued = 1)
          => IF r.hadMirror
             THEN inMemoryTree = disk.root /\ lastSyncedAt = disk.syncedAt /\ disk.syncedAt = r.preSyncedAt
             ELSE inMemoryTree = Null /\ lastSyncedAt = 0 /\ disk = NoRecord

\* C36: whenever getTree returns stale = true it also returns syncingInBackground = true, and
\* a background sync is in flight at that moment, holding the marker.
C36_StaleImpliesBackgroundRunning ==
    \A r \in returned :
       (r.op = "getTree" /\ r.outcome = "tree" /\ r.stale)
          => /\ r.syncingInBackground
             /\ syncInProgress \in BackgroundInFlight

\* A stale getTree that found a background sync already running and started none.
C36_Witness ==
    \E r \in returned :
       /\ r.op = "getTree" /\ r.stale /\ r.syncingInBackground /\ ~r.triggered
       /\ syncInProgress \in BackgroundInFlight /\ syncInProgress < issued

\* C37: with isRegex set, the pattern that is compiled and matched is the caller's query
\* unchanged, with only case-insensitive matching added: the results of a search without a
\* limit are the nodes of the scope whose name matches the query as the caller wrote it.
C37_RegexQueryUnchanged ==
    \A r \in returned :
       (Searched(r) /\ r.options.isRegex /\ ~r.options.includeNotes /\ r.options.limit = 0)
          => ResultNodes(r) = SelectSeq(Scope(r), LAMBDA id : RegexTest(r.query, Name(id)))

\* The name and id strategies alone: the unique exact name, the id, the unique prefix.
NameAndIdStrategies(children, arg) ==
    LET exact == {i \in DOMAIN children : Name(children[i]) = arg}
        byId == {i \in DOMAIN children : IdString(children[i]) = arg}
        prefix == {i \in DOMAIN children : StartsWith(ToLowerCase(Name(children[i])), ToLowerCase(arg))}
    IN IF Cardinality(exact) = 1 THEN children[CHOOSE i \in exact : TRUE]
       ELSE IF byId # {} THEN children[CHOOSE i \in byId : TRUE]
       ELSE IF Cardinality(prefix) = 1 THEN children[CHOOSE i \in prefix : TRUE]
       ELSE NotFound

\* C38: the index strategy applies only to a segment that is, as a whole, a positive integer:
\* a single-segment resolvePath whose segment contains a non-digit character, or is an integer
\* outside 1..number of children, answers what the name and id strategies give.
C38_IndexOnlyForWholeIntegers ==
    \A r \in returned :
       (/\ r.op = "resolvePath" /\ Segments(r.arg) = <<r.arg>> /\ r.arg \notin {DotDot, <<"~">>}
        /\ \/ \E i \in DOMAIN r.arg : ~IsDigit(r.arg[i])
           \/ ParseIntStrict(r.arg) \notin 1..Len(ChildrenOf(r.startId)))
          => r.currentNode = NameAndIdStrategies(ChildrenOf(r.startId), r.arg)

\* C39: after load(), for every sequence of setNode, popPath, resetToRoot, setPath and
\* changeDirectory calls, the session's breadcrumb stack is non-empty and its last element's id
\* is the current node id; a popPath, and a changeDirectory of ".." or "../..", made at the
\* root returns with both unchanged.
C39_BreadcrumbsEndAtCurrentNode ==
    /\ currentPath # <<>>
    /\ currentPath[Len(currentPath)] = currentNodeId
    /\ \A r \in returned :
          (/\ r.startPath = <<ROOT>> /\ r.startId = ROOT
           /\ \/ r.op = "popPath"
              \/ r.op = "changeDirectory" /\ r.arg \in {<<".", ".">>, <<".", ".", "/", ".", ".">>})
             => r.outcome = "done" /\ currentPath = <<ROOT>> /\ currentNodeId = ROOT

\* popPath was called at the root, and the session is still there.
C39_Witness ==
    \E r \in returned :
       r.op = "popPath" /\ r.startPath = <<ROOT>> /\ currentPath = <<ROOT>> /\ currentNodeId = ROOT

\* What keeps the event loop alive: syncs with an armed timer or a fetch still running.
Outstanding == {s \in DOMAIN syncs : syncs[s].timer = "armed" \/ syncs[s].pending # {}}

\* C40: when a full sync has finished before its timeout, nothing of it stays pending (its
\* timer is disarmed and none of its fetches is running), and once a search has returned with
\* no sync racing, the engine has no outstanding work.
C40_FinishedSyncLeavesNothingPending ==
    /\ \A s \in DOMAIN syncs : syncs[s].race = "ok" => s \notin Outstanding
    /\ \A r \in returned :
          (r.op = "search" /\ r.outcome = "done" /\ Racing = {}) => Outstanding = {}

====
